---------------------------- MODULE Spec2Model ----------------------------
(***************************************************************************)
(* Extraction & matching pipeline of opportunity_finder_backend.           *)
(*                                                                         *)
(* Four state machines share this module, each with its own Init/Next:     *)
(*   SpecFallback  provider-chain fallback of the extraction service       *)
(*   SpecGemini    quota-aware provider: advisory lock, throttle, cooldown  *)
(*   SpecMatch     matching engine: evaluation and Match upsert            *)
(*   Spec          raw extraction state machine (extract_one, batch task)  *)
(* A specification leaves the variables of the other three unchanged.      *)
(***************************************************************************)
EXTENDS Integers, Sequences, FiniteSets, TLC

VARIABLES
    \* ---- provider fallback (processing/services/extractor.py) ----
    fbCaller,        \* which fallback function runs
    fbNames,         \* get_provider_chain_names(): the configured chain
    fbText,          \* the routing text (its letter counts)
    fbOut,           \* what each provider does when called
    fbI,             \* loop position in the chain (1-based)
    fbLastTransient, \* last_transient (index of the provider, 0 = None)
    fbFirstPermanent,\* first_permanent (index of the provider, 0 = None)
    fbCalled,        \* providers called so far, in call order
    fbStatus,        \* "running" | "returned" | "raised" | "neutral"
    fbError,         \* the exception that left the function
    \* ---- quota-aware provider (ai/providers/gemini.py), one entry per worker process ----
    gmNow,           \* wall clock, in ticks
    gmPc,            \* position of each worker inside generate_* / _call
    gmCalls,         \* generate_* calls started by each worker
    gmTried,         \* tried_keys of the running _call
    gmAttempt,       \* index into backoffs of the running retry loop
    gmLastExc,       \* last_exc of the running _call
    gmOutcome,       \* how _call ended ("ok" | "transient" | "permanent")
    gmResult,        \* how the last generate_* call ended for its caller
    gmTokens,        \* _GLOBAL_BUCKET.tokens of each process (scaled)
    gmUpdatedAt,     \* _GLOBAL_BUCKET.updated_at of each process
    gmCooldownUntil, \* _GLOBAL_COOLDOWN_UNTIL of each process
    gmLock,          \* holder of pg_advisory_lock(_GEMINI_RATE_LOCK_KEY), 0 = free
    gmUsage,         \* ai_usage_aiapicall rows of provider gemini: tick -> count
    gmSends,         \* outbound generate requests: tick -> count
    gmQuotaUntil,    \* latest cooldown deadline announced by any quota response
    gmSentEarly,     \* a request was sent before gmQuotaUntil
    gmExhausted,     \* _exhausted_keys of the provider object of the running call
    gmQuotaDeadline, \* end of the back-off the last response asked for (0 = not a quota response)
    gmLastResp,      \* how the last HTTP attempt of the call ended ("none" = no attempt yet)
    \* ---- matching engine (matching/services/matcher.py), one entry per running call ----
    mtMatches,       \* the Match table: a set of rows
    mtNextId,        \* next primary key of the Match table
    mtPc,            \* position of each match_opportunity_to_users call
    mtOpp,           \* opportunity_id of the call
    mtUserIds,       \* users the call iterates over
    mtU,             \* user of the current loop iteration (0 = none)
    mtResult,        \* match_result of the current iteration
    mtStage1,        \* what the Stage-1 query of the current iteration selected
    mtFound,         \* update_or_create's first get() found a row
    mtRecord,        \* id of the row _create_match_record returned
    mtEvaluated,     \* pairs scored at Stage 2 by calls that have returned
    mtSeenEval,      \* mtEvaluated as it was when the call started
    mtSeenMatch,     \* pairs that had a Match row when the call started
    mtAiLog,         \* Stage-2 calls made: [run, user, opp, target]
    mtNotified,      \* _trigger_notifications calls made: [run, match, created]
    \* ---- raw extraction (processing/services/extractor.py, processing/tasks.py) ----
    exRawText,       \* RawOpportunity.raw_text of each row
    exRaw,           \* committed RawOpportunity rows: status, text_en, content_hash, error_message
    exOpps,          \* committed Opportunity rows
    exNextOppId,     \* next primary key of the Opportunity table
    exRowLock,       \* transactions holding the row lock of each RawOpportunity
    exPc,            \* position of each process inside extract_one
    exCur,           \* raw_id of the running extract_one (0 = none)
    exObj,           \* the locked raw as the transaction has written it
    exPrev,          \* prev_raw of the dedup lookup (0 = None)
    exBackfill,      \* rows whose content_hash the lookup backfilled in the transaction
    exOppWrite,      \* the Opportunity save of the transaction
    exPrior,         \* the lookup ran while a same-hash row was committed EXTRACTED
    exErr,           \* what raised the exception that left the atomic block
    exCalls,         \* extract_one invocations started
    exAiLog,         \* AI extraction calls made: [raw, hash, prior]
    exIntegrityError,\* an Opportunity INSERT hit the one-to-one constraint
    exLast,          \* how the last finished extract_one of each row ended
    exBatch,         \* how the last process_pending_raw run ended
    \* ---- key rotation of one GeminiAIProvider object (ai/providers/gemini.py) ----
    krExhausted,     \* _exhausted_keys
    krIndex,         \* _current_key_index
    krLast,          \* what the last _get_next_api_key did (0 = not called since the last mark)
    krCalls,         \* _get_next_api_key calls made
    \* ---- local token bucket: one _TokenBucket and its one caller (ai/providers/gemini.py) ----
    tbNow,           \* time.monotonic(), in ticks
    tbTokens,        \* self.tokens, in units of 1/TbPeriod token
    tbUpdatedAt,     \* self.updated_at
    tbPc,            \* "idle" | "sleeping" (inside time.sleep of wait_for_token)
    tbWake,          \* when the running time.sleep ends
    tbArrival,       \* when the current (or last) wait_for_token was invoked
    tbDue,           \* when one whole token is there for that call
    tbReturn,        \* when the last finished wait_for_token returned (-1 = none yet)
    tbSpent,         \* units the last return took from the bucket
    tbPaced,         \* every call so far came at least TbPeriod after the one before
    \* ---- business rules of extract_one on the Opportunity it saves (processing/services/extractor.py) ----
    prRemoteExists,  \* a root Location named "Remote" exists
    prClosedText,    \* closed/filled phrase in `raw.raw_text or text_en` of each raw ("" = none)
    prMentionsRemote,\* _text_mentions_remote of each raw's text
    prOpp,           \* the saved Opportunity of each raw (NoOpp = none)
    prPc,            \* position inside extract_one
    prCur,           \* raw of the running extract_one (0 = none)
    prWork,          \* `opp`, the object being filled in
    prRuns,          \* extract_one runs started
    \* ---- RawOpportunityWriter.upsert_items (ingestion/services/writer.py) ----
    wrRows,          \* committed RawOpportunity rows
    wrNextId,        \* next primary key
    wrPending,       \* rows written by each open upsert_items transaction
    wrLocks,         \* (source, external_id) keys each open transaction holds
    wrPc,            \* position of each upsert_items call
    wrSource,        \* `source` of the call
    wrLeft,          \* items of the call not yet reached
    wrN,             \* len(items)
    wrItem,          \* the item being upserted
    wrFound,         \* the lookup of update_or_create found a row
    wrCreated,       \* `created`
    wrUpdated,       \* `updated`
    wrResult,        \* WriteResult of the last finished call
    wrCalls,         \* upsert_items calls started
    wrPipeline,      \* status writes of the pipeline so far
    \* ---- _provider_chain_for_text (processing/services/extractor.py) ----
    rtNames,         \* the cached list of get_provider_chain_names
    rtText,          \* text of the last call
    rtChain,         \* list returned by the last call
    rtCalls          \* calls so far

fbVars == <<fbCaller, fbNames, fbText, fbOut, fbI, fbLastTransient,
            fbFirstPermanent, fbCalled, fbStatus, fbError>>

gmVars == <<gmNow, gmPc, gmCalls, gmTried, gmAttempt, gmLastExc, gmOutcome,
            gmResult, gmTokens, gmUpdatedAt, gmCooldownUntil, gmLock, gmUsage,
            gmSends, gmQuotaUntil, gmSentEarly, gmExhausted, gmQuotaDeadline,
            gmLastResp>>

mtVars == <<mtMatches, mtNextId, mtPc, mtOpp, mtUserIds, mtU, mtResult, mtStage1,
            mtFound, mtRecord, mtEvaluated, mtSeenEval, mtSeenMatch, mtAiLog, mtNotified>>

exVars == <<exRawText, exRaw, exOpps, exNextOppId, exRowLock, exPc, exCur, exObj,
            exPrev, exBackfill, exOppWrite, exPrior, exErr, exCalls, exAiLog,
            exIntegrityError, exLast, exBatch>>

krVars == <<krExhausted, krIndex, krLast, krCalls>>

tbVars == <<tbNow, tbTokens, tbUpdatedAt, tbPc, tbWake, tbArrival, tbDue, tbReturn,
            tbSpent, tbPaced>>

prVars == <<prRemoteExists, prClosedText, prMentionsRemote, prOpp, prPc, prCur,
            prWork, prRuns>>

wrVars == <<wrRows, wrNextId, wrPending, wrLocks, wrPc, wrSource, wrLeft, wrN,
            wrItem, wrFound, wrCreated, wrUpdated, wrResult, wrCalls, wrPipeline>>

rtVars == <<rtNames, rtText, rtChain, rtCalls>>

\* the machines added to the first four
auxVars == <<krVars, tbVars, prVars, wrVars, rtVars>>

vars == <<fbVars, gmVars, mtVars, exVars, auxVars>>

\* what each state machine leaves alone
fbOthers == <<gmVars, mtVars, exVars, auxVars>>
gmOthers == <<fbVars, mtVars, exVars, auxVars>>
mtOthers == <<fbVars, gmVars, exVars, auxVars>>
exOthers == <<fbVars, gmVars, mtVars, auxVars>>
coreVars == <<fbVars, gmVars, mtVars, exVars>>
krOthers == <<coreVars, tbVars, prVars, wrVars, rtVars>>
tbOthers == <<coreVars, krVars, prVars, wrVars, rtVars>>
prOthers == <<coreVars, krVars, tbVars, wrVars, rtVars>>
wrOthers == <<coreVars, krVars, tbVars, prVars, rtVars>>
rtOthers == <<coreVars, krVars, tbVars, prVars, wrVars>>

-----------------------------------------------------------------------------
(* Generic helpers *)

SetMax(S) == CHOOSE x \in S : \A y \in S : y <= x
SetMin(S) == CHOOSE x \in S : \A y \in S : x <= y

RECURSIVE SelectNotIn(_, _)
SelectNotIn(s, drop) ==
    IF s = <<>> THEN <<>>
    ELSE IF Head(s) \in drop THEN SelectNotIn(Tail(s), drop)
         ELSE <<Head(s)>> \o SelectNotIn(Tail(s), drop)

SeqRange(s) == {s[i] : i \in 1..Len(s)}

-----------------------------------------------------------------------------
(* Usage logging of the quota-aware provider *)

\* AIUsageTracker.log_call's keyword parameters
LogCallParams ==
    {"provider", "model", "operation", "context", "user", "prompt_length",
     "response_length", "tokens_used", "success", "error_message",
     "api_key_masked", "duration_ms"}

\* keywords GeminiAIProvider passes on the success path and on the failure path
GeminiLogKeywordsOk ==
    {"provider", "model", "operation", "context", "user", "prompt_length",
     "response_length", "success", "api_key_identifier", "duration_ms"}
GeminiLogKeywordsErr ==
    {"provider", "model", "operation", "context", "user", "prompt_length",
     "success", "error_message", "api_key_identifier", "duration_ms"}

\* A call with a keyword the function does not declare raises TypeError
\* before the body runs: no row is written.
LogCallRaises(keywords) == ~(keywords \subseteq LogCallParams)

\* What generate_text / generate_json of the provider leaves with, given how
\* _call (and the JSON parsing) ended: "ok" | "transient" | "permanent".
\* The success path logs inside the try, so a raising log_call lands in the
\* except branch, which logs again and re-raises.
GeminiGenerateOutcome(callOutcome) ==
    IF callOutcome = "ok"
    THEN IF LogCallRaises(GeminiLogKeywordsOk)
         THEN "other"
         ELSE "ok"
    ELSE IF LogCallRaises(GeminiLogKeywordsErr)
         THEN "other"
         ELSE callOutcome

-----------------------------------------------------------------------------
(* Provider fallback: the extraction service's three loops and Stage 2 of *)
(* the matching engine                                                    *)

MaxChain == 3

Providers == {"gemini", "groq", "huggingface"}
Callers == {"translate", "generate_json", "extract", "stage2"}

\* the routing text as its letters: how many are Latin (A-Z, a-z), Ethiopic
\* (U+1200..U+137F) and of any other script
MinAlpha == 20
MinLatinPercent == 70
LatinCounts == {0, 14, 19, 20}
EthiopicCounts == {0, 1}
OtherCounts == {0, 6, 7}
TextClasses == [latin : LatinCounts, ethiopic : EthiopicCounts, other : OtherCounts]
NoRoutingText == [latin |-> 0, ethiopic |-> 0, other |-> 0]

\* _contains_ethiopic
ContainsEthiopic(text) == text.ethiopic > 0

\* _is_probably_english on the routing text
RoutingTextIsEnglish(text) ==
    LET alpha == text.latin + text.ethiopic + text.other
    IN  /\ alpha > 0
        /\ ~ContainsEthiopic(text)
        /\ alpha >= MinAlpha
        /\ text.latin * 100 >= MinLatinPercent * alpha

\* amharicish of _provider_chain_for_text, mutant: the Ethiopic test alone
Amharicish_EthiopicOnly(text) == ContainsEthiopic(text)

\* amharicish of _provider_chain_for_text
Amharicish(text) == ContainsEthiopic(text) \/ ~RoutingTextIsEnglish(text)

\* generate_json's keyword parameters, per provider class
GenerateJsonParams(name) ==
    LET base == {"prompt", "json_schema", "system", "model", "temperature"}
    IN  IF name = "gemini" THEN base \cup {"context", "user"} ELSE base

\* keywords _stage2_ai_rerank passes to generate_json
Stage2Keywords ==
    {"prompt", "json_schema", "temperature", "model", "context", "user"}

\* an undeclared keyword raises TypeError before the provider does anything
GenerateJsonRaises(name, keywords) == ~(keywords \subseteq GenerateJsonParams(name))

\* How one provider of the chain ends for the caller:
\*   ok             the call (and, for extract, taxonomy validation) succeeds
\*   transient      AITransientError
\*   permanent      AIPermanentError
\*   configuration  AIConfigurationError (get_provider_by_name / provider ctor)
\*   invalid        ValueError of _validate_taxonomy_ids (inconsistent chain)
\*   other          any other exception (TypeError of the usage logger or of
\*                  an undeclared keyword, DoesNotExist of a taxonomy lookup)
ProviderOutcomes(name, caller) ==
    LET contract == {"ok", "transient", "permanent"}
        fromCall == IF caller = "stage2" /\ GenerateJsonRaises(name, Stage2Keywords)
                    THEN {"other"}
                    ELSE IF name = "gemini"
                    THEN {GeminiGenerateOutcome(c) : c \in contract}
                    ELSE contract
        validated == IF caller = "extract" /\ "ok" \in fromCall
                     THEN {"invalid", "other"}
                     ELSE {}
    IN  fromCall \cup validated \cup {"configuration"}

ConfiguredChains ==
    {s \in UNION {[1..n -> Providers] : n \in 1..MaxChain} :
        \A i, j \in DOMAIN s : i # j => s[i] # s[j]}

\* _provider_chain_for_text
ProviderChainForText(names, text) ==
    IF "gemini" \in SeqRange(names) /\ "groq" \in SeqRange(names)
    THEN LET preferred == IF Amharicish(text)
                          THEN <<"gemini", "groq">>
                          ELSE <<"groq", "gemini">>
         IN  preferred \o SelectNotIn(names, {"gemini", "groq"})
    ELSE names

\* the chain the loop iterates over: Stage 2 takes the configured chain as is
fbChain ==
    IF fbCaller = "stage2" THEN fbNames ELSE ProviderChainForText(fbNames, fbText)

NoError == [kind |-> "none", cause |-> 0]

FbInit ==
    /\ fbCaller \in Callers
    /\ fbNames \in ConfiguredChains
    /\ fbText \in TextClasses
    /\ fbOut \in [Providers -> {"ok", "transient", "permanent", "configuration",
                                "invalid", "other"}]
    /\ \A n \in Providers : fbOut[n] \in ProviderOutcomes(n, fbCaller)
    /\ fbI = 1
    /\ fbLastTransient = 0
    /\ fbFirstPermanent = 0
    /\ fbCalled = <<>>
    /\ fbStatus = "running"
    /\ fbError = NoError

\* the fallback machine at rest (used by the other specifications)
FbIdle ==
    /\ fbCaller = "translate"
    /\ fbNames = <<"groq">>
    /\ fbText = NoRoutingText
    /\ fbOut = [n \in Providers |-> "ok"]
    /\ fbI = 1
    /\ fbLastTransient = 0
    /\ fbFirstPermanent = 0
    /\ fbCalled = <<>>
    /\ fbStatus = "returned"
    /\ fbError = NoError

\* faulty variant: a provider's success does not end the loop
ExceptBranch_NoReturn(caller, o) ==
    IF o \in {"ok", "transient"} THEN "transient"
    ELSE IF o \in {"permanent", "configuration"}
            \/ (o = "invalid" /\ caller = "extract")
            \/ caller = "stage2" THEN "permanent"
    ELSE "uncaught"

\* faulty variant: the extraction loop does not catch ValueError
ExceptBranch_NoValueError(caller, o) ==
    IF o = "ok" THEN "return"
    ELSE IF o = "transient" THEN "transient"
    ELSE IF o \in {"permanent", "configuration"} \/ caller = "stage2"
    THEN "permanent"
    ELSE "uncaught"

\* Where the body of the try leaves for outcome o: the `return` of the try,
\* the except clause that catches it, or none.
\* "invalid" (ValueError) is caught by _extract_with_provider_fallback only;
\* Stage 2 catches `(AIPermanentError, Exception)`, that is everything.
ExceptBranch(caller, o) ==
    IF o = "ok" THEN "return"
    ELSE IF o = "transient" THEN "transient"
    ELSE IF o \in {"permanent", "configuration"}
            \/ (o = "invalid" /\ caller = "extract")
            \/ caller = "stage2" THEN "permanent"
    ELSE "uncaught"

\* One iteration of `for name in chain:` with its try/except.
FbTryProvider ==
    /\ fbStatus = "running"
    /\ fbI <= Len(fbChain)
    /\ LET name == fbChain[fbI]
           branch == ExceptBranch(fbCaller, fbOut[name])
       IN  /\ fbCalled' = Append(fbCalled, name)
           /\ CASE branch = "return" ->
                    /\ fbStatus' = "returned"
                    /\ UNCHANGED <<fbI, fbLastTransient, fbFirstPermanent, fbError>>
                [] branch = "transient" ->
                    /\ fbLastTransient' = fbI
                    /\ fbI' = fbI + 1
                    /\ UNCHANGED <<fbFirstPermanent, fbStatus, fbError>>
                [] branch = "permanent" ->
                    /\ fbFirstPermanent' =
                          IF fbFirstPermanent = 0 THEN fbI ELSE fbFirstPermanent
                    /\ fbI' = fbI + 1
                    /\ UNCHANGED <<fbLastTransient, fbStatus, fbError>>
                [] OTHER ->
                    \* not caught: leaves the loop at once
                    /\ fbStatus' = "raised"
                    /\ fbError' = [kind |-> "other", cause |-> fbI]
                    /\ UNCHANGED <<fbI, fbLastTransient, fbFirstPermanent>>
    /\ UNCHANGED <<fbCaller, fbNames, fbText, fbOut>>
    /\ UNCHANGED fbOthers

\* The code after the loop: raise the last transient, else the first permanent.
\* translate / generate_json re-raise the remembered exception itself;
\* extract raises a new AITransientError / AIPermanentError `from` it;
\* Stage 2 raises nothing and returns the neutral result.
FbExhausted ==
    /\ fbStatus = "running"
    /\ fbI > Len(fbChain)
    /\ fbStatus' = IF fbCaller = "stage2" THEN "neutral" ELSE "raised"
    /\ fbError' =
         IF fbCaller = "stage2"
         THEN NoError
         ELSE IF fbLastTransient # 0
         THEN [kind |-> "transient", cause |-> fbLastTransient]
         ELSE IF fbFirstPermanent # 0
              THEN [kind |-> IF fbCaller = "extract"
                             THEN "permanent"
                             ELSE fbOut[fbChain[fbFirstPermanent]],
                    cause |-> fbFirstPermanent]
              ELSE [kind |-> "aierror", cause |-> 0]
    /\ UNCHANGED <<fbCaller, fbNames, fbText, fbOut, fbI, fbLastTransient,
                   fbFirstPermanent, fbCalled>>
    /\ UNCHANGED fbOthers


-----------------------------------------------------------------------------
(* Quota-aware provider: GeminiAIProvider._call and its throttles *)

NWorkers == 2       \* worker processes
MaxTime == 3        \* ticks modelled
MaxCalls == 1       \* generate_* calls per worker
RpmLimit == 2       \* GEMINI_RPM_LIMIT, scaled down
WindowTicks == 2    \* the 60 s window, in ticks
NKeys == 2          \* len(cfg.api_keys)
NBackoffs == 4      \* len(backoffs)

Workers == 1..NWorkers
Keys == 1..NKeys
Ticks == 0..MaxTime

\* _TokenBucket, in units of 1/WindowTicks token so that refill is integral:
\* capacity = rpm tokens, rate = rpm tokens per 60 s, one token per pass.
BucketCapacity == RpmLimit * WindowTicks
RefillPerTick == RpmLimit
TokenCost == WindowTicks

\* GEMINI_429_COOLDOWN_SECONDS (60 s) and the "retry in Ns" hints modelled
CooldownTicks == WindowTicks
RetryHints == {0, 1}          \* 0 = no hint in the error body

Responses == {"ok", "quota", "5xx", "4xx", "neterr"}

Min2(a, b) == IF a <= b THEN a ELSE b
Max2(a, b) == IF a >= b THEN a ELSE b

\* wait_for_token's refill: min(capacity, tokens + elapsed * rate)
Refill(tokens, updatedAt, now) ==
    Min2(BucketCapacity, tokens + Max2(0, now - updatedAt) * RefillPerTick)

\* wait_for_token returns once the refilled bucket holds a whole token
BucketAdmits(tokens, updatedAt, now) == Refill(tokens, updatedAt, now) >= TokenCost

RECURSIVE RowsSince(_, _)
\* rows with created_at >= cutoff
RowsSince(usage, cutoff) ==
    IF cutoff > MaxTime THEN 0
    ELSE (IF cutoff >= 0 THEN usage[cutoff] ELSE 0) + RowsSince(usage, cutoff + 1)

\* the cross-process pacing loop of _wait_global_throttle: it returns when fewer
\* than rpm rows lie in the last 60 s, or the oldest of the rpm newest rows is
\* 60 s old
WindowAdmits(usage, now) ==
    \/ RowsSince(usage, now - WindowTicks) < RpmLimit
    \/ RowsSince(usage, now - WindowTicks + 1) < RpmLimit

\* _wait_global_throttle returns for worker w
ThrottleAdmits(w) ==
    /\ gmCooldownUntil[w] <= gmNow
    /\ BucketAdmits(gmTokens[w], gmUpdatedAt[w], gmNow)
    /\ WindowAdmits(gmUsage, gmNow)

\* the bucket after wait_for_token took its token
SpendToken(w) ==
    /\ gmTokens' = [gmTokens EXCEPT ![w] =
                       Refill(gmTokens[w], gmUpdatedAt[w], gmNow) - TokenCost]
    /\ gmUpdatedAt' = [gmUpdatedAt EXCEPT ![w] = gmNow]

\* faulty variant: the round-robin walks the configured keys, exhausted or not
NextApiKey_AllKeys(keys, exhausted, index) ==
    LET available == keys \ exhausted
        n == Cardinality(keys)
        rank(k) == Cardinality({j \in keys : j < k})
    IN  IF available = {} THEN {}
        ELSE IF available = keys THEN available
        ELSE {k \in keys : rank(k) = index % n}

\* _get_next_api_key over cfg.api_keys = keys (in list order): the keys it
\* may return (empty = raises AIPermanentError)
NextApiKey(keys, exhausted, index) ==
    LET available == keys \ exhausted
    IN  IF available = {} THEN {}
        ELSE IF available = keys THEN available      \* random.choice
        ELSE LET n == Cardinality(available)
                 rank(k) == Cardinality({j \in available : j < k})
             IN  {k \in available : rank(k) = index % n}

\* _get_next_api_key of the provider object of a generate_* call
GetNextApiKey(exhausted, index) == NextApiKey(Keys, exhausted, index)

\* faulty variant: the lock is taken without waiting for its holder
AdvisoryLockFree_NoWait(w) == TRUE

\* _AdvisoryLock.__enter__ returns only when no other session holds the lock
AdvisoryLockFree(w) == gmLock = 0

GmInit ==
    /\ gmNow = 0
    /\ gmPc = [w \in Workers |-> "idle"]
    /\ gmCalls = [w \in Workers |-> 0]
    /\ gmTried = [w \in Workers |-> {}]
    /\ gmAttempt = [w \in Workers |-> 1]
    /\ gmLastExc = [w \in Workers |-> "none"]
    /\ gmOutcome = [w \in Workers |-> "none"]
    /\ gmResult = [w \in Workers |-> "none"]
    /\ gmTokens = [w \in Workers |-> BucketCapacity]
    /\ gmUpdatedAt = [w \in Workers |-> 0]
    /\ gmCooldownUntil = [w \in Workers |-> 0]
    /\ gmLock = 0
    /\ gmUsage = [t \in Ticks |-> 0]
    /\ gmSends = [t \in Ticks |-> 0]
    /\ gmQuotaUntil = 0
    /\ gmSentEarly = FALSE
    /\ gmExhausted = [w \in Workers |-> {}]
    /\ gmQuotaDeadline = [w \in Workers |-> 0]
    /\ gmLastResp = [w \in Workers |-> "none"]

GmIdle == GmInit

GmTick ==
    /\ gmNow < MaxTime
    /\ gmNow' = gmNow + 1
    /\ UNCHANGED <<gmPc, gmCalls, gmTried, gmAttempt, gmLastExc, gmOutcome,
                   gmResult, gmTokens, gmUpdatedAt, gmCooldownUntil, gmLock,
                   gmUsage, gmSends, gmQuotaUntil, gmSentEarly>>
    /\ UNCHANGED <<gmExhausted, gmQuotaDeadline, gmLastResp>>
    /\ UNCHANGED gmOthers

\* generate_text / generate_json enters _call
GmBegin(w) ==
    /\ gmPc[w] = "idle"
    /\ gmCalls[w] < MaxCalls
    /\ gmCalls' = [gmCalls EXCEPT ![w] = @ + 1]
    /\ gmPc' = [gmPc EXCEPT ![w] = "pick_key"]
    /\ gmTried' = [gmTried EXCEPT ![w] = {}]
    /\ gmLastExc' = [gmLastExc EXCEPT ![w] = "none"]
    /\ gmOutcome' = [gmOutcome EXCEPT ![w] = "none"]
    /\ gmResult' = [gmResult EXCEPT ![w] = "none"]
    /\ gmQuotaDeadline' = [gmQuotaDeadline EXCEPT ![w] = 0]
    /\ gmLastResp' = [gmLastResp EXCEPT ![w] = "none"]
    /\ UNCHANGED <<gmNow, gmAttempt, gmTokens, gmUpdatedAt, gmCooldownUntil,
                   gmLock, gmUsage, gmSends, gmQuotaUntil, gmSentEarly>>
    /\ UNCHANGED gmExhausted
    /\ UNCHANGED gmOthers

\* faulty variant: the call does not remember the keys it has tried
AlreadyTried_Never(tried, k) == FALSE

\* `if api_key in tried_keys:`
AlreadyTried(tried, k) == k \in tried

\* top of `while True:`: pick a key; a key already tried ends the call with
\* last_exc (or AIPermanentError when nothing was raised before).
\* The provider object is built per call and _call never marks a key, so
\* _exhausted_keys is empty and _current_key_index is 0 here.
GmPickKey(w) ==
    /\ gmPc[w] = "pick_key"
    /\ \E k \in GetNextApiKey(gmExhausted[w], 0) :
         IF AlreadyTried(gmTried[w], k)
         THEN /\ gmOutcome' = [gmOutcome EXCEPT ![w] =
                     IF gmLastExc[w] # "none" THEN gmLastExc[w] ELSE "permanent"]
              /\ gmPc' = [gmPc EXCEPT ![w] = "log"]
              /\ UNCHANGED gmTried
         ELSE /\ gmTried' = [gmTried EXCEPT ![w] = @ \cup {k}]
              /\ gmPc' = [gmPc EXCEPT ![w] = "throttle"]
              /\ UNCHANGED gmOutcome
    /\ UNCHANGED <<gmNow, gmCalls, gmAttempt, gmLastExc, gmResult, gmTokens,
                   gmUpdatedAt, gmCooldownUntil, gmLock, gmUsage, gmSends,
                   gmQuotaUntil, gmSentEarly>>
    /\ UNCHANGED <<gmExhausted, gmQuotaDeadline, gmLastResp>>
    /\ UNCHANGED gmOthers

\* the _wait_global_throttle() before the request is built (outside the lock)
GmThrottle(w) ==
    /\ gmPc[w] = "throttle"
    /\ ThrottleAdmits(w)
    /\ SpendToken(w)
    /\ gmAttempt' = [gmAttempt EXCEPT ![w] = 1]
    /\ gmPc' = [gmPc EXCEPT ![w] = "lock_wait"]
    /\ UNCHANGED <<gmNow, gmCalls, gmTried, gmLastExc, gmOutcome, gmResult,
                   gmCooldownUntil, gmLock, gmUsage, gmSends, gmQuotaUntil,
                   gmSentEarly>>
    /\ UNCHANGED <<gmExhausted, gmQuotaDeadline, gmLastResp>>
    /\ UNCHANGED gmOthers

\* `with _AdvisoryLock(...)`: pg_advisory_lock blocks until the lock is free
GmAcquire(w) ==
    /\ gmPc[w] = "lock_wait"
    /\ AdvisoryLockFree(w)
    /\ gmLock' = w
    /\ gmPc' = [gmPc EXCEPT ![w] = "locked"]
    /\ UNCHANGED <<gmNow, gmCalls, gmTried, gmAttempt, gmLastExc, gmOutcome,
                   gmResult, gmTokens, gmUpdatedAt, gmCooldownUntil, gmUsage,
                   gmSends, gmQuotaUntil, gmSentEarly>>
    /\ UNCHANGED <<gmExhausted, gmQuotaDeadline, gmLastResp>>
    /\ UNCHANGED gmOthers

\* under the lock: _wait_global_throttle(), then urlopen sends the request
GmSend(w) ==
    /\ gmPc[w] = "locked"
    /\ ThrottleAdmits(w)
    /\ SpendToken(w)
    /\ gmSends' = [gmSends EXCEPT ![gmNow] = @ + 1]
    /\ gmSentEarly' = (gmSentEarly \/ gmNow < gmQuotaUntil)
    /\ gmPc' = [gmPc EXCEPT ![w] = "inflight"]
    /\ UNCHANGED <<gmNow, gmCalls, gmTried, gmAttempt, gmLastExc, gmOutcome,
                   gmResult, gmCooldownUntil, gmLock, gmUsage, gmQuotaUntil>>
    /\ UNCHANGED <<gmExhausted, gmQuotaDeadline, gmLastResp>>
    /\ UNCHANGED gmOthers

\* faulty variant: a quota response is retried like a 5xx, on to the next key
HttpErrorBranch_QuotaRotates(resp) ==
    IF resp = "ok" THEN "return"
    ELSE IF resp \in {"quota", "5xx", "neterr"} THEN "continue"
    ELSE "raise_permanent"

\* what the retry loop of _call does with a response: return it, set the
\* cooldown and raise AITransientError (is_quota_error), continue with the
\* next backoff / next key (5xx, network fault), or raise AIPermanentError
HttpErrorBranch(resp) ==
    IF resp = "ok" THEN "return"
    ELSE IF resp = "quota" THEN "cooldown_raise"
    ELSE IF resp \in {"5xx", "neterr"} THEN "continue"
    ELSE "raise_permanent"

\* the response (or the network fault) arrives; leaving the with-block runs
\* _AdvisoryLock.__exit__ on every path, then the except clauses run
GmRespond(w) ==
    /\ gmPc[w] = "inflight"
    /\ gmLock' = 0
    /\ \E resp \in Responses, hint \in RetryHints :
         LET branch == HttpErrorBranch(resp)
             wait == IF hint # 0 THEN hint ELSE CooldownTicks
         IN
         /\ resp # "quota" => hint = 0
         /\ gmLastResp' = [gmLastResp EXCEPT ![w] = resp]
         /\ gmQuotaDeadline' = [gmQuotaDeadline EXCEPT ![w] =
                                   IF resp = "quota" THEN gmNow + wait ELSE 0]
         /\ gmQuotaUntil' = IF resp = "quota" THEN Max2(gmQuotaUntil, gmNow + wait)
                                              ELSE gmQuotaUntil
         /\ CASE branch = "return" ->
                /\ gmOutcome' = [gmOutcome EXCEPT ![w] = "ok"]
                /\ gmPc' = [gmPc EXCEPT ![w] = "log"]
                /\ UNCHANGED <<gmAttempt, gmLastExc, gmCooldownUntil>>
           [] branch = "cooldown_raise" ->
                /\ gmCooldownUntil' = [gmCooldownUntil EXCEPT ![w] =
                                          Max2(@, gmNow + wait)]
                /\ gmLastExc' = [gmLastExc EXCEPT ![w] = "transient"]
                /\ gmOutcome' = [gmOutcome EXCEPT ![w] = "transient"]
                /\ gmPc' = [gmPc EXCEPT ![w] = "log"]
                /\ UNCHANGED gmAttempt
           [] branch = "continue" ->
                /\ gmLastExc' = [gmLastExc EXCEPT ![w] = "transient"]
                /\ IF gmAttempt[w] < NBackoffs
                   THEN /\ gmAttempt' = [gmAttempt EXCEPT ![w] = @ + 1]
                        /\ gmPc' = [gmPc EXCEPT ![w] = "lock_wait"]
                   ELSE /\ gmPc' = [gmPc EXCEPT ![w] = "pick_key"]
                        /\ UNCHANGED gmAttempt
                /\ UNCHANGED <<gmOutcome, gmCooldownUntil>>
           [] branch = "raise_permanent" ->
                /\ gmOutcome' = [gmOutcome EXCEPT ![w] = "permanent"]
                /\ gmPc' = [gmPc EXCEPT ![w] = "log"]
                /\ UNCHANGED <<gmAttempt, gmLastExc, gmCooldownUntil>>
    /\ UNCHANGED <<gmNow, gmCalls, gmTried, gmResult, gmTokens, gmUpdatedAt,
                   gmUsage, gmSends, gmSentEarly>>
    /\ UNCHANGED gmExhausted
    /\ UNCHANGED gmOthers

\* generate_* logs the call and returns or re-raises
GmLog(w) ==
    /\ gmPc[w] = "log"
    /\ LET kw == IF gmOutcome[w] = "ok" THEN GeminiLogKeywordsOk
                                        ELSE GeminiLogKeywordsErr
       IN  gmUsage' = IF LogCallRaises(kw) THEN gmUsage
                      ELSE [gmUsage EXCEPT ![gmNow] = @ + 1]
    /\ gmResult' = [gmResult EXCEPT ![w] = GeminiGenerateOutcome(gmOutcome[w])]
    /\ gmPc' = [gmPc EXCEPT ![w] = "idle"]
    /\ UNCHANGED <<gmNow, gmCalls, gmTried, gmAttempt, gmLastExc, gmOutcome,
                   gmTokens, gmUpdatedAt, gmCooldownUntil, gmLock, gmSends,
                   gmQuotaUntil, gmSentEarly>>
    /\ UNCHANGED <<gmExhausted, gmQuotaDeadline, gmLastResp>>
    /\ UNCHANGED gmOthers

GmNext ==
    \/ GmTick
    \/ \E w \in Workers :
         \/ GmBegin(w)
         \/ GmPickKey(w)
         \/ GmThrottle(w)
         \/ GmAcquire(w)
         \/ GmSend(w)
         \/ GmRespond(w)
         \/ GmLog(w)

-----------------------------------------------------------------------------
(* Matching engine: OpportunityMatcher *)

NRuns == 2                \* concurrent or successive match_opportunity_to_users calls
NUsers == 2               \* active users with a matching profile
NOpps == 1                \* active opportunities being matched
MaxStage1Candidates == 2  \* max_stage1_candidates, scaled down
MinMatchScore == 7        \* min_match_score
NeutralScore == 5         \* score when AI is skipped or every provider fails
NoMatchScore == 0         \* score when Stage 1 yields no candidate

Runs == 1..NRuns
Users == 1..NUsers
Opps == 1..NOpps
Pairs == Users \X Opps

\* relevance_score values a provider honouring the generate_json call of
\* Stage 2 returns, after max(0, min(10, score))
AiScores == {3, 7, 9}

NoResult == [score |-> -1, stage2 |-> -1, existing |-> FALSE, target |-> FALSE]

\* no Stage-1 query has run in the current iteration
NoStage1 == [prefs |-> FALSE, passing |-> -1, listed |-> FALSE]

\* Match.objects.filter(user=, opportunity=)
MatchRows(matches, u, o) == {m \in matches : m.user = u /\ m.opp = o}

\* faulty variant: the lookup of an existing Match finds nothing
ExistingMatch_Blind(matches, u, o) == {}

\* _match_single_user's `existing_match` lookup
ExistingMatch(matches, u, o) == MatchRows(matches, u, o)

\* faulty variant: no unique constraint on (user, opportunity)
UniqueViolation_None(matches, u, o) == FALSE

\* Match.Meta.unique_together: an INSERT of (u, o) is rejected when a row exists
UniqueViolation(matches, u, o) == MatchRows(matches, u, o) # {}

\* the candidates list of _stage1_sql_filter: the rows passing the filter,
\* cut to max_stage1_candidates
Stage1Candidates(passing) == Min2(passing, MaxStage1Candidates)

MtInit ==
    /\ mtMatches = {}
    /\ mtNextId = 1
    /\ mtPc = [r \in Runs |-> "idle"]
    /\ mtOpp = [r \in Runs |-> 1]
    /\ mtUserIds = [r \in Runs |-> {}]
    /\ mtU = [r \in Runs |-> 0]
    /\ mtResult = [r \in Runs |-> NoResult]
    /\ mtStage1 = [r \in Runs |-> NoStage1]
    /\ mtFound = [r \in Runs |-> FALSE]
    /\ mtRecord = [r \in Runs |-> 0]
    /\ mtEvaluated = {}
    /\ mtSeenEval = [r \in Runs |-> {}]
    /\ mtSeenMatch = [r \in Runs |-> {}]
    /\ mtAiLog = {}
    /\ mtNotified = {}

MtIdle == MtInit

\* users of the call not yet iterated over, in query order
MtRemaining(r) == {u \in mtUserIds[r] : u > mtU[r]}

\* the loop moves to the next user, or the call returns; the pairs the call
\* scored at Stage 2 (log = the AI calls made so far) then count as evaluated
MtAdvance(r, log) ==
    IF MtRemaining(r) = {}
    THEN /\ mtPc' = [mtPc EXCEPT ![r] = "done"]
         /\ mtU' = [mtU EXCEPT ![r] = 0]
         /\ mtEvaluated' = mtEvaluated \cup
                              {<<a.user, a.opp>> : a \in {b \in log : b.run = r}}
    ELSE /\ mtPc' = [mtPc EXCEPT ![r] = "single"]
         /\ mtU' = [mtU EXCEPT ![r] = SetMin(MtRemaining(r))]
         /\ UNCHANGED mtEvaluated

\* match_opportunity_to_users is called: the opportunity and the users are loaded
MtStart(r) ==
    /\ mtPc[r] = "idle"
    /\ \E o \in Opps, ids \in (SUBSET Users) \ {{}} :
         /\ mtOpp' = [mtOpp EXCEPT ![r] = o]
         /\ mtUserIds' = [mtUserIds EXCEPT ![r] = ids]
         /\ mtU' = [mtU EXCEPT ![r] = SetMin(ids)]
    /\ mtPc' = [mtPc EXCEPT ![r] = "single"]
    /\ mtSeenEval' = [mtSeenEval EXCEPT ![r] = mtEvaluated]
    /\ mtSeenMatch' = [mtSeenMatch EXCEPT ![r] =
                          {p \in Pairs : MatchRows(mtMatches, p[1], p[2]) # {}}]
    /\ UNCHANGED <<mtMatches, mtNextId, mtResult, mtStage1, mtFound, mtRecord,
                   mtEvaluated, mtAiLog, mtNotified>>
    /\ UNCHANGED mtOthers

\* number of rows the query of _stage1_sql_filter selects: the ACTIVE
\* opportunities that satisfy the user's preferences, the one being matched
\* (if it does) and the others alike; the query does not name the target
Stage1Passing(targetPasses, others) == others + (IF targetPasses THEN 1 ELSE 0)

\* whether the opportunity being matched is in the list the query returns:
\* the rows are ordered by -published_at and cut to max_stage1_candidates, so
\* it is when it passes and fewer than the cap of the passing rows come before it
Stage1Listed(targetPasses, before) == targetPasses /\ before < MaxStage1Candidates

\* _match_single_user up to Stage 2: config, existing match, Stage 1.
\* hasConfig, whether the config sets any preference (hasPrefs), whether the
\* opportunity being matched satisfies the preferences, how many other ACTIVE
\* opportunities do and how many of those the ordering puts before it, are
\* read from the database at this moment. With no preference the filter is
\* status = ACTIVE alone, which the opportunity being matched satisfies.
MtSingleUser(r) ==
    /\ mtPc[r] = "single"
    /\ \E hasConfig, hasPrefs, targetPasses \in BOOLEAN,
          others \in {0, 1, MaxStage1Candidates} :
       \E before \in 0..others :
         LET u == mtU[r]
             o == mtOpp[r]
             existing == ExistingMatch(mtMatches, u, o)
             passing == Stage1Passing(targetPasses, others)
             n == Stage1Candidates(passing)
             query == [prefs |-> hasPrefs, passing |-> passing,
                       listed |-> Stage1Listed(targetPasses, before)]
         IN  /\ ~hasPrefs => targetPasses
             /\ IF ~hasConfig
                THEN \* returns None: nothing is recorded for the user
                     /\ passing = 0 /\ hasPrefs
                     /\ mtResult' = [mtResult EXCEPT ![r] = NoResult]
                     /\ mtStage1' = [mtStage1 EXCEPT ![r] = NoStage1]
                     /\ MtAdvance(r, mtAiLog)
                ELSE IF existing # {}
                THEN \* stored result, flagged existing_match: no AI, no write
                     /\ passing = 0 /\ hasPrefs
                     /\ mtResult' = [mtResult EXCEPT ![r] =
                           [score |-> (CHOOSE m \in existing : TRUE).score,
                            stage2 |-> -1, existing |-> TRUE, target |-> FALSE]]
                     /\ mtStage1' = [mtStage1 EXCEPT ![r] = NoStage1]
                     /\ MtAdvance(r, mtAiLog)
                ELSE IF n = 0
                THEN /\ mtResult' = [mtResult EXCEPT ![r] =
                           [score |-> NoMatchScore, stage2 |-> -1, existing |-> FALSE,
                            target |-> FALSE]]
                     /\ mtStage1' = [mtStage1 EXCEPT ![r] = NoStage1]
                     /\ MtAdvance(r, mtAiLog)
                ELSE IF n <= MaxStage1Candidates
                THEN /\ mtPc' = [mtPc EXCEPT ![r] = "stage2"]
                     /\ mtResult' = [mtResult EXCEPT ![r] =
                           [NoResult EXCEPT !.target = targetPasses]]
                     /\ mtStage1' = [mtStage1 EXCEPT ![r] = query]
                     /\ UNCHANGED <<mtU, mtEvaluated>>
                ELSE /\ mtResult' = [mtResult EXCEPT ![r] =
                           [score |-> NeutralScore, stage2 |-> -1, existing |-> FALSE,
                            target |-> targetPasses]]
                     /\ mtStage1' = [mtStage1 EXCEPT ![r] = NoStage1]
                     /\ MtAdvance(r, mtAiLog)
    /\ UNCHANGED <<mtMatches, mtNextId, mtOpp, mtUserIds, mtFound, mtRecord,
                   mtSeenEval, mtSeenMatch, mtAiLog, mtNotified>>
    /\ UNCHANGED mtOthers

\* faulty variant: every evaluated pair is stored
ReachesThreshold_Always(score) == TRUE

\* match_result["match_score"] >= self.min_match_score
ReachesThreshold(score) == score >= MinMatchScore

\* _stage2_ai_rerank: generate_json through the chain; a provider answers with
\* a score, or every provider fails (answer -1) and the neutral score is
\* returned. Then the threshold test of match_opportunity_to_users.
MtStage2(r) ==
    /\ mtPc[r] = "stage2"
    /\ mtAiLog' = mtAiLog \cup {[run |-> r, user |-> mtU[r], opp |-> mtOpp[r],
                                 target |-> mtResult[r].target]}
    /\ \E answer \in AiScores \cup {-1} :
         LET res == IF answer = -1
                    THEN [score |-> NeutralScore, stage2 |-> -1, existing |-> FALSE,
                          target |-> mtResult[r].target]
                    ELSE [score |-> answer, stage2 |-> answer, existing |-> FALSE,
                          target |-> mtResult[r].target]
         IN  /\ mtResult' = [mtResult EXCEPT ![r] = res]
             /\ mtStage1' = [mtStage1 EXCEPT ![r] = NoStage1]
             /\ IF ReachesThreshold(res.score)
                THEN /\ mtPc' = [mtPc EXCEPT ![r] = "upsert_get"]
                     /\ UNCHANGED <<mtU, mtEvaluated>>
                ELSE MtAdvance(r, mtAiLog')
    /\ UNCHANGED <<mtMatches, mtNextId, mtOpp, mtUserIds, mtFound, mtRecord,
                   mtSeenEval, mtSeenMatch, mtNotified>>
    /\ UNCHANGED mtOthers

\* _create_match_record, update_or_create's SELECT ... FOR UPDATE
MtUpsertGet(r) ==
    /\ mtPc[r] = "upsert_get"
    /\ mtFound' = [mtFound EXCEPT ![r] = MatchRows(mtMatches, mtU[r], mtOpp[r]) # {}]
    /\ mtPc' = [mtPc EXCEPT ![r] = "upsert_write"]
    /\ UNCHANGED <<mtMatches, mtNextId, mtOpp, mtUserIds, mtU, mtResult, mtStage1,
                   mtRecord, mtEvaluated, mtSeenEval, mtSeenMatch, mtAiLog, mtNotified>>
    /\ UNCHANGED mtOthers

\* _create_match_record, update_or_create's write: UPDATE of the row found, or
\* INSERT; an INSERT rejected by the unique constraint falls back to get + UPDATE
MtUpsertWrite(r) ==
    /\ mtPc[r] = "upsert_write"
    /\ LET u == mtU[r]
           o == mtOpp[r]
           insert == ~mtFound[r] /\ ~UniqueViolation(mtMatches, u, o)
           row == [id |-> mtNextId, user |-> u, opp |-> o,
                   score |-> mtResult[r].score, stage2 |-> mtResult[r].stage2,
                   stage1_passed |-> TRUE, status |-> "ACTIVE"]
           old == CHOOSE m \in MatchRows(mtMatches, u, o) : TRUE
       IN  IF insert
           THEN /\ mtMatches' = mtMatches \cup {row}
                /\ mtNextId' = mtNextId + 1
                /\ mtRecord' = [mtRecord EXCEPT ![r] = row.id]
           ELSE /\ mtMatches' = (mtMatches \ {old}) \cup
                                   {[row EXCEPT !.id = old.id]}
                /\ mtRecord' = [mtRecord EXCEPT ![r] = old.id]
                /\ UNCHANGED mtNextId
    /\ mtPc' = [mtPc EXCEPT ![r] = "notify"]
    /\ UNCHANGED <<mtOpp, mtUserIds, mtU, mtResult, mtStage1, mtFound, mtEvaluated,
                   mtSeenEval, mtSeenMatch, mtAiLog, mtNotified>>
    /\ UNCHANGED mtOthers

\* _trigger_notifications(match_record), then the next user
MtNotify(r) ==
    /\ mtPc[r] = "notify"
    /\ mtNotified' = mtNotified \cup {[run |-> r, match |-> mtRecord[r]]}
    /\ MtAdvance(r, mtAiLog)
    /\ UNCHANGED <<mtMatches, mtNextId, mtOpp, mtUserIds, mtResult, mtStage1,
                   mtFound, mtRecord, mtSeenEval, mtSeenMatch, mtAiLog>>
    /\ UNCHANGED mtOthers

MtNext ==
    \E r \in Runs :
        \/ MtStart(r)
        \/ MtSingleUser(r)
        \/ MtStage2(r)
        \/ MtUpsertGet(r)
        \/ MtUpsertWrite(r)
        \/ MtNotify(r)

-----------------------------------------------------------------------------
(* Raw extraction: RawOpportunityExtractor.extract_one, process_pending_raw *)

NRaws == 2            \* RawOpportunity rows
NProcs == 2           \* processes that run extract_one
NBodies == 1          \* distinct core contents a post can carry
MaxExtractCalls == 3  \* extract_one invocations modelled
MaxLegacy == 1        \* rows extracted before content_hash was stored
ScanLimit == 250      \* rows the backfill scan reads

Raws == 1..NRaws
Procs == 1..NProcs
Answers == {1, 2}     \* distinct structured results an AI extraction can return

\* Taxonomy rows: Domain k is owned by OpportunityType k, Specialization k by
\* Domain k (Domain.opportunity_type, Specialization.domain).
DomainOpportunityType(domain) == domain
SpecializationDomain(specialization) == specialization

\* op_type / domain / specialization carried by a structured result. Results 1
\* and 2 name a consistent chain; result 3 names a domain that its type does
\* not own (a provider's inconsistent output, or a row stored before the
\* taxonomy rows were edited).
Taxonomy(d) ==
    CASE d = 1 -> [op_type |-> 1, domain |-> 1, specialization |-> 1]
      [] d = 2 -> [op_type |-> 2, domain |-> 2, specialization |-> 2]
      [] OTHER -> [op_type |-> 2, domain |-> 1, specialization |-> 1]

\* what providers can return, and what Opportunity rows can hold at the start
ProviderAnswers == Answers \cup {3}
StoredAnswers == {1, 3}

TaxonomyConsistent(t) ==
    /\ DomainOpportunityType(t.domain) = t.op_type
    /\ SpecializationDomain(t.specialization) = t.domain

\* _validate_taxonomy_ids: ValueError unless the chain is consistent
ValidateTaxonomyIds(d) == IF TaxonomyConsistent(Taxonomy(d)) THEN "ok" ELSE "invalid"

\* faulty variant: full_clean() without the model's clean()
OpportunityClean_Skip(d) == TRUE

\* Opportunity.clean (run by full_clean): ValidationError unless TRUE
OpportunityClean(d) == TaxonomyConsistent(Taxonomy(d))

\* members of RawOpportunity.ProcessingStatus
Statuses == {"NEW", "TRANSLATED", "EXTRACTED", "FAILED"}
PendingStatuses == {"NEW", "TRANSLATED"}

\* ProcessingStatus.<name>: an attribute that is not a member raises AttributeError
StatusMember(name) == IF name \in Statuses THEN name ELSE "AttributeError"

\* A text is its script, its core content (0 = none) and whether it carries
\* what normalisation strips (URLs, handles, status markers, punctuation).
NoText == [lang |-> "none", body |-> 0, noise |-> FALSE]
RawTexts ==
    {NoText}
    \cup {[lang |-> "en", body |-> b, noise |-> n] : b \in 1..NBodies, n \in BOOLEAN}
    \cup {[lang |-> "en", body |-> 0, noise |-> TRUE]}
    \cup {[lang |-> "am", body |-> b, noise |-> FALSE] : b \in 1..NBodies}

\* _is_probably_english: no Ethiopic letter, and mostly Latin letters
IsProbablyEnglish(t) == t.lang = "en"

\* normalize_for_hash: the core content in its script; 0 is the empty string
NormalizeForHash(t) ==
    IF t.lang = "none" \/ t.body = 0 THEN 0
    ELSE IF t.lang = "en" THEN t.body
    ELSE NBodies + t.body

\* compute_content_hash: digest of the normal form, 0 (falsy) when it is empty
ComputeContentHash(t) ==
    LET norm == NormalizeForHash(t) IN IF norm = 0 THEN 0 ELSE norm

\* a translation that came out English
Translate(t) == [lang |-> "en", body |-> t.body, noise |-> t.noise]

\* what a provider may hand back as the translation of t: the English
\* translation, or text that is still in the script of the input
TranslationCandidates(t) == {Translate(t), t}

\* how _translate_to_english_with_fallback can end
TranslateOutcomes == {"ok", "transient", "permanent", "configuration", "other"}
\* how the retry's provider.generate_text can end (the provider exists already)
RetryOutcomes == {"ok", "transient", "permanent", "other"}
\* how _extract_with_provider_fallback and the title check can end
ExtractOutcomes == {"ok", "empty_title", "transient", "permanent", "other"}

\* faulty variant: the ValueError of the English check is handled as retryable
HandlerKind_NotEnglishRetryable(outcome) ==
    CASE outcome \in {"transient", "not_english"} -> "transient"
      [] outcome = "permanent" -> "permanent"
      [] outcome = "configuration" -> "aierror"
      [] OTHER -> "exception"

\* the except clause of extract_one that catches each failure
HandlerKind(outcome) ==
    CASE outcome = "transient" -> "transient"
      [] outcome = "permanent" -> "permanent"
      [] outcome = "configuration" -> "aierror"
      [] OTHER -> "exception"

FreshRow == [status |-> "NEW", text_en |-> NoText, hash |-> 0, err |-> ""]
LegacyRow(t) == [status |-> "EXTRACTED", text_en |-> t, hash |-> 0, err |-> ""]
NoOppWrite == [kind |-> "none", data |-> 0, dedupe |-> FALSE, root |-> 0]

OppOf(opps, q) == {o \in opps : o.raw = q}
HasOpp(opps, q) == OppOf(opps, q) # {}
IsCanonical(opps, q) == \E o \in OppOf(opps, q) : ~o.dedupe

\* faulty variant: every except clause records the error only
FailureUpdate_KeepStatus(row, kind) == [row EXCEPT !.err = kind]

\* faulty variant: the except clause saves a row of its own, not two columns
FailureUpdate_WholeRow(row, kind) ==
    [FreshRow EXCEPT !.status = IF kind = "transient" THEN row.status ELSE "FAILED",
                     !.err = kind]

\* the UPDATE each except clause of extract_one issues
FailureUpdate(row, kind) ==
    IF kind = "transient"
    THEN [row EXCEPT !.err = kind]
    ELSE [row EXCEPT !.status = StatusMember("FAILED"), !.err = kind]

\* select_for_update / UPDATE wait until no other transaction holds the row
RowLockFree(r) == exRowLock[r] = {}

\* faulty variant: the raw's Opportunity is never looked up
NoExistingOpp_Blind(opps, r) == TRUE

\* getattr(raw, "opportunity", None) is None
NoExistingOpp(opps, r) == ~HasOpp(opps, r)

\* faulty variant: _find_prev_extracted_by_hash without its last resort
FindPrevLastResort_None(raws, opps, prevRaw) == 0

\* last resort of _find_prev_extracted_by_hash: the most recent row, dedupe or not
FindPrevLastResort(raws, opps, prevRaw) ==
    IF prevRaw # 0 /\ HasOpp(opps, prevRaw) THEN prevRaw ELSE 0

\* _find_prev_extracted_by_hash: prev_raw and the rows it backfills
FindPrevExtractedByHash(raws, opps, texts, r, h) ==
    LET same == {q \in Raws \ {r} : raws[q].status = "EXTRACTED" /\ raws[q].hash = h}
        prevRaw == IF same = {} THEN 0 ELSE SetMax(same)
        unhashed == {q \in Raws \ {r} : raws[q].status = "EXTRACTED" /\ raws[q].hash = 0}
        candidates == {q \in unhashed : Cardinality({x \in unhashed : x > q}) < ScanLimit}
        CandText(q) == IF raws[q].text_en # NoText THEN raws[q].text_en ELSE texts[q]
        matching == {q \in candidates :
                        /\ CandText(q) # NoText
                        /\ ComputeContentHash(CandText(q)) # 0
                        /\ ComputeContentHash(CandText(q)) = h}
        hits == {q \in matching : HasOpp(opps, q) /\ IsCanonical(opps, q)}
        found == IF hits = {} THEN 0 ELSE SetMax(hits)
        visited == IF found = 0 THEN matching ELSE {q \in matching : q >= found}
    IN  IF h = 0 THEN [prev |-> 0, backfill |-> {}]
        ELSE IF prevRaw # 0 /\ HasOpp(opps, prevRaw) /\ IsCanonical(opps, prevRaw)
        THEN [prev |-> prevRaw, backfill |-> {}]
        ELSE IF found # 0 THEN [prev |-> found, backfill |-> visited]
        ELSE [prev |-> FindPrevLastResort(raws, opps, prevRaw), backfill |-> visited]

\* the raws whose stored hash makes them a dedup source for hash h
ExtractedWithHash(raws, r, h) ==
    {q \in Raws \ {r} : raws[q].status = "EXTRACTED" /\ raws[q].hash = h /\ h # 0}

ExInit ==
    /\ exRawText \in [Raws -> RawTexts]
    /\ \E legacy \in SUBSET Raws :
          /\ Cardinality(legacy) <= MaxLegacy
          /\ \A q \in legacy : IsProbablyEnglish(exRawText[q]) /\ exRawText[q].body # 0
          /\ exRaw = [q \in Raws |->
                         IF q \in legacy THEN LegacyRow(exRawText[q]) ELSE FreshRow]
          /\ \E d \in StoredAnswers :
                exOpps = {[id |-> q, raw |-> q, data |-> d, dedupe |-> FALSE,
                           root |-> 0, updated |-> FALSE] : q \in legacy}
          /\ exNextOppId = NRaws + 1
    /\ exRowLock = [q \in Raws |-> {}]
    /\ exPc = [p \in Procs |-> "idle"]
    /\ exCur = [p \in Procs |-> 0]
    /\ exObj = [p \in Procs |-> FreshRow]
    /\ exPrev = [p \in Procs |-> 0]
    /\ exBackfill = [p \in Procs |-> {}]
    /\ exOppWrite = [p \in Procs |-> NoOppWrite]
    /\ exPrior = [p \in Procs |-> FALSE]
    /\ exErr = [p \in Procs |-> "none"]
    /\ exCalls = 0
    /\ exAiLog = {}
    /\ exIntegrityError = FALSE
    /\ exLast = [q \in Raws |-> "none"]
    /\ exBatch = [result |-> "none", selected |-> {}, retry |-> {}, enqueued |-> {}]

ExIdle ==
    /\ exRawText = [q \in Raws |-> NoText]
    /\ exRaw = [q \in Raws |-> FreshRow]
    /\ exOpps = {}
    /\ exNextOppId = NRaws + 1
    /\ exRowLock = [q \in Raws |-> {}]
    /\ exPc = [p \in Procs |-> "idle"]
    /\ exCur = [p \in Procs |-> 0]
    /\ exObj = [p \in Procs |-> FreshRow]
    /\ exPrev = [p \in Procs |-> 0]
    /\ exBackfill = [p \in Procs |-> {}]
    /\ exOppWrite = [p \in Procs |-> NoOppWrite]
    /\ exPrior = [p \in Procs |-> FALSE]
    /\ exErr = [p \in Procs |-> "none"]
    /\ exCalls = 0
    /\ exAiLog = {}
    /\ exIntegrityError = FALSE
    /\ exLast = [q \in Raws |-> "none"]
    /\ exBatch = [result |-> "none", selected |-> {}, retry |-> {}, enqueued |-> {}]

\* an exception leaves the atomic block: the transaction's writes and row
\* locks are dropped and control reaches the except clause for the error
ExRaise(p, outcome) ==
    /\ exPc' = [exPc EXCEPT ![p] = "handler"]
    /\ exErr' = [exErr EXCEPT ![p] = outcome]
    /\ exRowLock' = [q \in Raws |-> exRowLock[q] \ {p}]
    /\ exObj' = [exObj EXCEPT ![p] = FreshRow]
    /\ exPrev' = [exPrev EXCEPT ![p] = 0]
    /\ exBackfill' = [exBackfill EXCEPT ![p] = {}]
    /\ exOppWrite' = [exOppWrite EXCEPT ![p] = NoOppWrite]

\* extract_one is called (management command or task) and its
\* select_for_update().get(id=raw_id) returns with the row locked
ExBegin(p, r) ==
    /\ exPc[p] = "idle"
    /\ exCalls < MaxExtractCalls
    /\ RowLockFree(r)
    /\ exCalls' = exCalls + 1
    /\ exPc' = [exPc EXCEPT ![p] = "english"]
    /\ exCur' = [exCur EXCEPT ![p] = r]
    /\ exRowLock' = [exRowLock EXCEPT ![r] = @ \cup {p}]
    /\ exObj' = [exObj EXCEPT ![p] = exRaw[r]]
    /\ exPrior' = [exPrior EXCEPT ![p] = FALSE]
    /\ UNCHANGED <<exRawText, exRaw, exOpps, exNextOppId, exPrev, exBackfill,
                   exOppWrite, exErr, exAiLog, exIntegrityError, exLast, exBatch>>
    /\ UNCHANGED exOthers

\* _ensure_english_text stores the English text on the locked row:
\* text_en, status TRANSLATED, _save_raw_fields
ExSaveEnglish(p, t) ==
    /\ exObj' = [exObj EXCEPT ![p] =
           [@ EXCEPT !.text_en = t, !.status = StatusMember("TRANSLATED")]]
    /\ exPc' = [exPc EXCEPT ![p] = "dedup"]
    /\ UNCHANGED <<exRowLock, exPrev, exBackfill, exOppWrite, exErr>>

\* _ensure_english_text up to the first translation, and the "no usable text"
\* check that follows it when it returns ""
ExEnsureEnglish(p) ==
    /\ exPc[p] = "english"
    /\ LET r == exCur[p]
           obj == exObj[p]
           rawText == exRawText[r]
       IN  IF obj.text_en # NoText /\ IsProbablyEnglish(obj.text_en)
           THEN /\ exPc' = [exPc EXCEPT ![p] = "dedup"]
                /\ UNCHANGED <<exObj, exRowLock, exPrev, exBackfill, exOppWrite, exErr>>
           ELSE IF rawText = NoText
           THEN ExRaise(p, "no_usable_text")
           ELSE IF IsProbablyEnglish(rawText)
           THEN ExSaveEnglish(p, rawText)
           ELSE \E out \in TranslateOutcomes :
                    IF out = "ok"
                    THEN \E candidate \in TranslationCandidates(rawText) :
                            IF IsProbablyEnglish(candidate)
                            THEN ExSaveEnglish(p, candidate)
                            ELSE /\ exPc' = [exPc EXCEPT ![p] = "retry"]
                                 /\ UNCHANGED <<exObj, exRowLock, exPrev, exBackfill,
                                                exOppWrite, exErr>>
                    ELSE ExRaise(p, out)
    /\ UNCHANGED <<exRawText, exRaw, exOpps, exNextOppId, exCur, exPrior, exCalls,
                   exAiLog, exIntegrityError, exLast, exBatch>>
    /\ UNCHANGED exOthers

\* _ensure_english_text, the retry with the hard constraint and the second
\* heuristic check: English text is stored, anything else raises ValueError
ExRetryTranslation(p) ==
    /\ exPc[p] = "retry"
    /\ \E out \in RetryOutcomes :
          IF out = "ok"
          THEN \E candidate \in TranslationCandidates(exRawText[exCur[p]]) :
                  IF IsProbablyEnglish(candidate)
                  THEN ExSaveEnglish(p, candidate)
                  ELSE ExRaise(p, "not_english")
          ELSE ExRaise(p, out)
    /\ UNCHANGED <<exRawText, exRaw, exOpps, exNextOppId, exCur, exPrior, exCalls,
                   exAiLog, exIntegrityError, exLast, exBatch>>
    /\ UNCHANGED exOthers

\* flags["deduped_from_raw_id"]: the origin the copied row records, else that row
DedupedFromRawId(prevOpp, prevRaw) ==
    IF prevOpp.root # 0 THEN prevOpp.root ELSE prevRaw

\* faulty variant: the copy takes the first structured result, whatever the
\* copied row holds
CopyStructuredFields_Reset(prevOpp) == 1

\* the dedupe shortcut's field-by-field copy: taxonomy ids, work mode,
\* employment type, experience level, compensation bounds of prev_opp
CopyStructuredFields(prevOpp) == prevOpp.data

\* content hash, then the dedupe shortcut up to opp.save() and the EXTRACTED save
ExDedup(p) ==
    /\ exPc[p] = "dedup"
    /\ LET r == exCur[p]
           h == ComputeContentHash(exObj[p].text_en)
           fp == FindPrevExtractedByHash(exRaw, exOpps, exRawText, r, h)
           prevOpp == CHOOSE o \in OppOf(exOpps, fp.prev) : TRUE
           own == OppOf(exOpps, r)
       IN  /\ \A b \in fp.backfill : RowLockFree(b) \/ exRowLock[b] = {p}
           /\ exPrior' = [exPrior EXCEPT ![p] = ExtractedWithHash(exRaw, r, h) # {}]
           /\ IF fp.prev # 0 /\ ~OpportunityClean(prevOpp.data)
              THEN \* opp.full_clean() raises ValidationError
                   ExRaise(p, "validation")
              ELSE /\ exRowLock' = [q \in Raws |->
                                       IF q \in fp.backfill THEN exRowLock[q] \cup {p}
                                       ELSE exRowLock[q]]
                   /\ exBackfill' = [exBackfill EXCEPT ![p] = fp.backfill]
                   /\ exPrev' = [exPrev EXCEPT ![p] = fp.prev]
                   /\ UNCHANGED exErr
                   /\ IF fp.prev # 0
                      THEN /\ exOppWrite' = [exOppWrite EXCEPT ![p] =
                                 [kind |-> IF NoExistingOpp(exOpps, r)
                                           THEN "insert" ELSE "update",
                                  data |-> CopyStructuredFields(prevOpp),
                                  dedupe |-> TRUE,
                                  root |-> DedupedFromRawId(prevOpp, fp.prev)]]
                           /\ exObj' = [exObj EXCEPT ![p] =
                                 [@ EXCEPT !.hash = h,
                                           !.status = StatusMember("EXTRACTED"),
                                           !.err = ""]]
                           /\ exPc' = [exPc EXCEPT ![p] = "commit"]
                      ELSE /\ exObj' = [exObj EXCEPT ![p] = [@ EXCEPT !.hash = h]]
                           /\ exPc' = [exPc EXCEPT ![p] = "ai"]
                           /\ UNCHANGED exOppWrite
    /\ UNCHANGED <<exRawText, exRaw, exOpps, exNextOppId, exCur, exCalls,
                   exAiLog, exIntegrityError, exLast, exBatch>>
    /\ UNCHANGED exOthers

\* _extract_with_provider_fallback, the title check, opp.save() and the
\* EXTRACTED save
ExAI(p) ==
    /\ exPc[p] = "ai"
    /\ LET r == exCur[p]
           own == OppOf(exOpps, r)
           existing == CHOOSE o \in own : TRUE
       IN  /\ exAiLog' = exAiLog \cup
                  {[raw |-> r, hash |-> exObj[p].hash, prior |-> exPrior[p]]}
           /\ \E out \in ExtractOutcomes :
                 IF out = "ok"
                 THEN \E d \in ProviderAnswers :
                        IF ValidateTaxonomyIds(d) # "ok"
                        THEN \* no provider's output validated
                             ExRaise(p, "permanent")
                        ELSE IF ~OpportunityClean(d)
                        THEN ExRaise(p, "validation")
                        ELSE
                          /\ exOppWrite' = [exOppWrite EXCEPT ![p] =
                               IF NoExistingOpp(exOpps, r)
                               THEN [kind |-> "insert", data |-> d,
                                     dedupe |-> FALSE, root |-> 0]
                               ELSE [kind |-> "update", data |-> d,
                                     dedupe |-> existing.dedupe, root |-> existing.root]]
                          /\ exObj' = [exObj EXCEPT ![p] =
                               [@ EXCEPT !.status = StatusMember("EXTRACTED"), !.err = ""]]
                          /\ exPc' = [exPc EXCEPT ![p] = "commit"]
                          /\ UNCHANGED <<exRowLock, exPrev, exBackfill, exErr>>
                 ELSE ExRaise(p, out)
    /\ UNCHANGED <<exRawText, exRaw, exOpps, exNextOppId, exCur, exPrior, exCalls,
                   exIntegrityError, exLast, exBatch>>
    /\ UNCHANGED exOthers

\* the one-to-one constraint of Opportunity.raw refuses a second row
OppUniqueViolation(opps, r) == HasOpp(opps, r)

\* the atomic block ends: an INSERT that meets a committed row of the same raw
\* raises IntegrityError, otherwise the transaction commits
ExCommit(p) ==
    /\ exPc[p] = "commit"
    /\ LET r == exCur[p]
           w == exOppWrite[p]
       IN  IF w.kind = "insert" /\ OppUniqueViolation(exOpps, r)
           THEN /\ exIntegrityError' = TRUE
                /\ ExRaise(p, "other")
                /\ UNCHANGED <<exRaw, exOpps, exNextOppId, exCur, exLast>>
           ELSE /\ exRaw' = [q \in Raws |->
                               IF q = r THEN exObj[p]
                               ELSE IF q \in exBackfill[p]
                               THEN [exRaw[q] EXCEPT !.hash = exObj[p].hash]
                               ELSE exRaw[q]]
                /\ exOpps' =
                      IF w.kind = "insert"
                      THEN exOpps \cup {[id |-> exNextOppId, raw |-> r, data |-> w.data,
                                         dedupe |-> w.dedupe, root |-> w.root,
                                         updated |-> FALSE]}
                      ELSE {IF o.raw = r
                            THEN [o EXCEPT !.data = w.data, !.dedupe = w.dedupe,
                                           !.root = w.root, !.updated = TRUE]
                            ELSE o : o \in exOpps}
                /\ exNextOppId' = IF w.kind = "insert" THEN exNextOppId + 1 ELSE exNextOppId
                /\ exRowLock' = [q \in Raws |-> exRowLock[q] \ {p}]
                /\ exLast' = [exLast EXCEPT ![r] = "ok"]
                /\ exPc' = [exPc EXCEPT ![p] = "idle"]
                /\ exCur' = [exCur EXCEPT ![p] = 0]
                /\ exObj' = [exObj EXCEPT ![p] = FreshRow]
                /\ exPrev' = [exPrev EXCEPT ![p] = 0]
                /\ exBackfill' = [exBackfill EXCEPT ![p] = {}]
                /\ exOppWrite' = [exOppWrite EXCEPT ![p] = NoOppWrite]
                /\ UNCHANGED <<exErr, exIntegrityError>>
    /\ UNCHANGED <<exRawText, exPrior, exCalls, exAiLog, exBatch>>
    /\ UNCHANGED exOthers

\* the except clause: RawOpportunity.objects.filter(id=raw_id).update(...),
\* issued after the rollback, then the exception is re-raised
ExHandler(p) ==
    /\ exPc[p] = "handler"
    /\ LET r == exCur[p]
       IN  /\ RowLockFree(r)
           /\ exRaw' = [exRaw EXCEPT ![r] = FailureUpdate(@, HandlerKind(exErr[p]))]
           /\ exLast' = [exLast EXCEPT ![r] = HandlerKind(exErr[p])]
    /\ exPc' = [exPc EXCEPT ![p] = "idle"]
    /\ exCur' = [exCur EXCEPT ![p] = 0]
    /\ exErr' = [exErr EXCEPT ![p] = "none"]
    /\ UNCHANGED <<exRawText, exOpps, exNextOppId, exRowLock, exObj, exPrev,
                   exBackfill, exOppWrite, exPrior, exCalls, exAiLog,
                   exIntegrityError, exBatch>>
    /\ UNCHANGED exOthers

\* process_pending_raw(limit): lock the first pending rows, claim each by
\* setting its status, and enqueue one task per claimed row
ProcessPendingRaw(limit) ==
    LET pending == {q \in Raws : exRaw[q].status \in PendingStatuses}
        selected == {q \in pending : Cardinality({x \in pending : x < q}) < limit}
        claim == StatusMember("PROCESSING")
        retry == {q \in selected : exLast[q] = "transient"}
    IN  /\ \A q \in selected : RowLockFree(q)
        /\ IF selected = {}
           THEN /\ exBatch' = [result |-> "returned", selected |-> {}, retry |-> {},
                               enqueued |-> {}]
                /\ UNCHANGED exRaw
           ELSE IF claim = "AttributeError"
           THEN /\ exBatch' = [result |-> "raised", selected |-> selected,
                               retry |-> retry, enqueued |-> {}]
                /\ UNCHANGED exRaw
           ELSE /\ exBatch' = [result |-> "returned", selected |-> selected,
                               retry |-> retry, enqueued |-> selected]
                /\ exRaw' = [q \in Raws |->
                                IF q \in selected THEN [exRaw[q] EXCEPT !.status = claim]
                                ELSE exRaw[q]]
        /\ UNCHANGED <<exRawText, exOpps, exNextOppId, exRowLock, exPc, exCur, exObj,
                       exPrev, exBackfill, exOppWrite, exPrior, exErr, exCalls, exAiLog,
                       exIntegrityError, exLast>>
        /\ UNCHANGED exOthers

ExNext ==
    \/ \E p \in Procs :
          \/ \E r \in Raws : ExBegin(p, r)
          \/ ExEnsureEnglish(p)
          \/ ExRetryTranslation(p)
          \/ ExDedup(p)
          \/ ExAI(p)
          \/ ExCommit(p)
          \/ ExHandler(p)
    \/ \E limit \in 1..NRaws : ProcessPendingRaw(limit)

-----------------------------------------------------------------------------
(* Key rotation: _get_next_api_key and _mark_key_exhausted of one provider *)
(* object, driven as ai/management/commands/test_key_rotation.py does     *)

NRotationKeys == 3     \* len(cfg.api_keys)
MaxSelections == 4     \* _get_next_api_key calls followed

RotationKeys == 1..NRotationKeys
PermanentError == -1   \* krLast when the selection raised AIPermanentError

KrInit ==
    /\ krExhausted = {}
    /\ krIndex = 0
    /\ krLast = 0
    /\ krCalls = 0

KrIdle == KrInit

\* _mark_key_exhausted(api_key)
KrMarkKeyExhausted(k) ==
    /\ k \notin krExhausted
    /\ krExhausted' = krExhausted \cup {k}
    /\ krLast' = 0
    /\ UNCHANGED <<krIndex, krCalls>>
    /\ UNCHANGED krOthers

\* _get_next_api_key()
KrGetNextApiKey ==
    /\ krCalls < MaxSelections
    /\ krCalls' = krCalls + 1
    /\ LET choices == NextApiKey(RotationKeys, krExhausted, krIndex)
       IN  IF choices = {}
           THEN /\ krLast' = PermanentError
                /\ UNCHANGED krIndex
           ELSE /\ \E k \in choices : krLast' = k
                /\ krIndex' = IF krExhausted = {} THEN krIndex ELSE krIndex + 1
    /\ UNCHANGED krExhausted
    /\ UNCHANGED krOthers

KrNext ==
    \/ \E k \in RotationKeys : KrMarkKeyExhausted(k)
    \/ KrGetNextApiKey

-----------------------------------------------------------------------------
(* Local token bucket: _TokenBucket.wait_for_token with one caller.        *)
(* Time is in ticks and tokens in units of 1/TbPeriod token, so that the   *)
(* bucket gains one unit per tick and needed / rate_per_second is `needed` *)
(* ticks. time.sleep is taken to last exactly as long as asked.            *)

TbPeriod == 4        \* ticks per token: 1 / rate_per_second (4 s at 15 rpm)
TbCapacity == 2      \* capacity in tokens (max(rpm, 1)), scaled down
TbMinSleep == 2      \* the 0.05 s floor of sleep_s, in ticks
TbMaxSleep == 3      \* the 2.0 s cap of time.sleep, in ticks
TbMaxTime == 14      \* ticks followed

TbCapacityUnits == TbCapacity * TbPeriod

\* min(self.capacity, self.tokens + elapsed * self.rate_per_second)
TbRefill(tokens, updatedAt, now) ==
    Min2(TbCapacityUnits, tokens + Max2(0, now - updatedAt))

\* faulty variant: the token is taken whether it is there or not
TbHasToken_Always(tokens) == TRUE

\* self.tokens >= 1.0
TbHasToken(tokens) == tokens >= TbPeriod

\* min(max(0.05, needed / self.rate_per_second), 2.0)
TbSleep(needed) == Min2(Max2(TbMinSleep, needed), TbMaxSleep)

TbInit ==
    /\ tbNow = 0
    /\ tbTokens = TbCapacityUnits
    /\ tbUpdatedAt = 0
    /\ tbPc = "idle"
    /\ tbWake = 0
    /\ tbArrival = 0
    /\ tbDue = 0
    /\ tbReturn = -1
    /\ tbSpent = 0
    /\ tbPaced = TRUE

TbIdle == TbInit

\* one pass of the `while True:` body: refill, then take a token and return,
\* or sleep
TbLoop ==
    LET refilled == TbRefill(tbTokens, tbUpdatedAt, tbNow)
    IN  /\ tbUpdatedAt' = tbNow
        /\ IF TbHasToken(refilled)
           THEN /\ tbTokens' = refilled - TbPeriod
                /\ tbSpent' = refilled - tbTokens'
                /\ tbReturn' = tbNow
                /\ tbPc' = "idle"
                /\ UNCHANGED tbWake
           ELSE /\ tbTokens' = refilled
                /\ tbPc' = "sleeping"
                /\ tbWake' = tbNow + TbSleep(TbPeriod - refilled)
                /\ UNCHANGED <<tbSpent, tbReturn>>

\* the clock advances; a sleeping caller wakes when its sleep is over
TbTick ==
    /\ tbNow < TbMaxTime
    /\ tbPc = "sleeping" => tbNow < tbWake
    /\ tbNow' = tbNow + 1
    /\ UNCHANGED <<tbTokens, tbUpdatedAt, tbPc, tbWake, tbArrival, tbDue, tbReturn,
                   tbSpent, tbPaced>>
    /\ UNCHANGED tbOthers

\* wait_for_token() is invoked: the first pass of the loop
TbWaitForToken ==
    /\ tbPc = "idle"
    /\ tbArrival' = tbNow
    /\ tbDue' = tbNow + Max2(0, TbPeriod - TbRefill(tbTokens, tbUpdatedAt, tbNow))
    /\ tbPaced' = (tbPaced /\ (tbReturn = -1 \/ tbNow - tbArrival >= TbPeriod))
    /\ TbLoop
    /\ UNCHANGED tbNow
    /\ UNCHANGED tbOthers

\* time.sleep returns: the next pass of the loop
TbWakeUp ==
    /\ tbPc = "sleeping"
    /\ tbNow = tbWake
    /\ TbLoop
    /\ UNCHANGED <<tbNow, tbArrival, tbDue, tbPaced>>
    /\ UNCHANGED tbOthers

TbNext == TbTick \/ TbWaitForToken \/ TbWakeUp

-----------------------------------------------------------------------------
(* Business rules of extract_one: the fields of the Opportunity it saves,  *)
(* on the AI path and on the dedup path. Locking, hashing and the raw's    *)
(* status are the subject of the raw extraction machine above; here every *)
(* run is one that reaches opp.save().                                     *)

NRuleRaws == 2        \* raws with the same content hash
MaxRuleRuns == 2      \* extract_one runs followed

RuleRaws == 1..NRuleRaws

OppStatuses == {"ACTIVE", "EXPIRED", "ARCHIVED"}
WorkModes == {"UNKNOWN", "REMOTE", "ONSITE", "HYBRID"}
\* opp.deadline against timezone.localdate()
Deadlines == {"none", "past", "future"}
\* phrases of _detect_closed's list that a text may contain
ClosedPhrases == {"closed", "vacancy filled"}

NoLocation == 0       \* location_id None
RemoteLocation == 1   \* _get_remote_location(): the root Location named "Remote"
CityLocation == 2     \* any other Location
\* Location rows an Opportunity may reference
Locations(remoteExists) ==
    {NoLocation, CityLocation} \cup (IF remoteExists THEN {RemoteLocation} ELSE {})

NoOpp == [status |-> "none", deadline |-> "none", work_mode |-> "UNKNOWN",
          location |-> NoLocation, is_remote |-> FALSE, closed_detected |-> FALSE,
          closed_match |-> "", override |-> FALSE, path |-> "none",
          run_closed |-> FALSE]

\* Opportunity(raw=raw, title=...): the field defaults of the model
NewOpp == [NoOpp EXCEPT !.status = "ACTIVE"]

\* _detect_closed(raw.raw_text or text_en): (is_closed, closed_match)
DetectClosed(phrase) == [is_closed |-> phrase # "", closed_match |-> phrase]

\* the dates `prev_opp.deadline or extract_deadline_fast(text_en)` may be,
\* seen from today: a stored future date may have passed since
DedupDeadlines(prev) ==
    IF prev = "none" THEN Deadlines
    ELSE IF prev = "future" THEN {"future", "past"}
    ELSE {"past"}

\* faulty variant: a REMOTE opportunity keeps its location when there is no
\* "Remote" node
RemoteRule_KeepWithoutNode(workMode, location, remoteExists) ==
    IF workMode = "REMOTE" /\ remoteExists /\ location # RemoteLocation
    THEN [location |-> RemoteLocation, override |-> TRUE]
    ELSE [location |-> location, override |-> FALSE]

\* the remote/location rule of extract_one: the location the opportunity
\* gets, and whether an override is recorded
RemoteRule(workMode, location, remoteExists) ==
    IF workMode # "REMOTE" THEN [location |-> location, override |-> FALSE]
    ELSE IF remoteExists /\ location # RemoteLocation
    THEN [location |-> RemoteLocation, override |-> TRUE]
    ELSE IF ~remoteExists /\ location # NoLocation
    THEN [location |-> NoLocation, override |-> TRUE]
    ELSE [location |-> location, override |-> FALSE]

\* _apply_post_extraction_rules: work_mode inference
InferWorkMode(workMode, location, mentionsRemote) ==
    IF workMode = "UNKNOWN" /\ location # NoLocation /\ ~mentionsRemote
    THEN "ONSITE"
    ELSE workMode

\* faulty variant: the expiry test runs after the closed mapping
StatusRule_ExpiryLast(status, isClosed, deadline) ==
    IF deadline = "past" THEN "EXPIRED"
    ELSE IF isClosed THEN "ARCHIVED"
    ELSE status

\* _apply_post_extraction_rules: closed status mapping and auto-expiry
StatusRule(status, isClosed, deadline) ==
    IF isClosed THEN "ARCHIVED"
    ELSE IF deadline = "past" THEN "EXPIRED"
    ELSE status

PrInit ==
    /\ prRemoteExists \in BOOLEAN
    /\ prClosedText \in [RuleRaws -> {""} \cup ClosedPhrases]
    /\ prMentionsRemote \in [RuleRaws -> BOOLEAN]
    /\ prOpp = [r \in RuleRaws |-> NoOpp]
    /\ prPc = "idle"
    /\ prCur = 0
    /\ prWork = NoOpp
    /\ prRuns = 0

PrIdle ==
    /\ prRemoteExists = FALSE
    /\ prClosedText = [r \in RuleRaws |-> ""]
    /\ prMentionsRemote = [r \in RuleRaws |-> FALSE]
    /\ prOpp = [r \in RuleRaws |-> NoOpp]
    /\ prPc = "idle"
    /\ prCur = 0
    /\ prWork = NoOpp
    /\ prRuns = 0

\* AI path up to the metadata: `opp` is the raw's Opportunity or a new one,
\* and takes work_mode, deadline and location from the validated output
\* (deadline: the model's date, else extract_deadline_fast); status and the
\* metadata flags are those the object already has
PrAssembleAI(r) ==
    /\ prPc = "idle"
    /\ prRuns < MaxRuleRuns
    /\ prRuns' = prRuns + 1
    /\ prCur' = r
    /\ \E wm \in WorkModes, dl \in Deadlines, loc \in Locations(prRemoteExists) :
         LET opp == IF prOpp[r] = NoOpp THEN NewOpp ELSE prOpp[r]
         IN  prWork' = [opp EXCEPT !.work_mode = wm, !.deadline = dl,
                                   !.location = loc, !.path = "ai"]
    /\ prPc' = "assembled"
    /\ UNCHANGED <<prRemoteExists, prClosedText, prMentionsRemote, prOpp>>
    /\ UNCHANGED prOthers

\* dedup path up to the metadata: the structured fields, the status and the
\* metadata (flags included) are copied from prev_opp, the Opportunity of
\* another raw
PrAssembleDedup(r, prev) ==
    /\ prPc = "idle"
    /\ prRuns < MaxRuleRuns
    /\ prev # r
    /\ prOpp[prev] # NoOpp
    /\ prRuns' = prRuns + 1
    /\ prCur' = r
    /\ \E dl \in DedupDeadlines(prOpp[prev].deadline) :
         prWork' = [prOpp[prev] EXCEPT !.deadline = dl, !.path = "dedup"]
    /\ prPc' = "assembled"
    /\ UNCHANGED <<prRemoteExists, prClosedText, prMentionsRemote, prOpp>>
    /\ UNCHANGED prOthers

\* the remote/location rule, the same code on both paths
PrRemoteRule ==
    /\ prPc = "assembled"
    /\ LET res == RemoteRule(prWork.work_mode, prWork.location, prRemoteExists)
       IN  prWork' = [prWork EXCEPT !.location = res.location,
                                    !.override = (res.override \/ @)]
    /\ prPc' = "located"
    /\ UNCHANGED <<prRemoteExists, prClosedText, prMentionsRemote, prOpp, prCur,
                   prRuns>>
    /\ UNCHANGED prOthers

\* _apply_post_extraction_rules(opp, raw, is_closed, closed_match, ...)
PrApplyPostExtractionRules ==
    /\ prPc = "located"
    /\ LET det == DetectClosed(prClosedText[prCur])
       IN  prWork' = [prWork EXCEPT
              !.work_mode = InferWorkMode(@, prWork.location, prMentionsRemote[prCur]),
              !.status = StatusRule(@, det.is_closed, prWork.deadline),
              !.closed_detected = (det.is_closed \/ @),
              !.closed_match = IF det.is_closed THEN det.closed_match ELSE @,
              !.run_closed = det.is_closed]
    /\ prPc' = "ruled"
    /\ UNCHANGED <<prRemoteExists, prClosedText, prMentionsRemote, prOpp, prCur,
                   prRuns>>
    /\ UNCHANGED prOthers

\* opp.full_clean(); opp.save() (Opportunity.save sets is_remote); the raw
\* becomes EXTRACTED and extract_one returns
PrSave ==
    /\ prPc = "ruled"
    /\ prOpp' = [prOpp EXCEPT ![prCur] =
                    [prWork EXCEPT !.is_remote = (prWork.work_mode = "REMOTE")]]
    /\ prWork' = NoOpp
    /\ prCur' = 0
    /\ prPc' = "idle"
    /\ UNCHANGED <<prRemoteExists, prClosedText, prMentionsRemote, prRuns>>
    /\ UNCHANGED prOthers

PrNext ==
    \/ \E r \in RuleRaws : PrAssembleAI(r)
    \/ \E r, prev \in RuleRaws : PrAssembleDedup(r, prev)
    \/ PrRemoteRule
    \/ PrApplyPostExtractionRules
    \/ PrSave

-----------------------------------------------------------------------------
(* RawOpportunityWriter.upsert_items (ingestion/services/writer.py) *)

NWriters == 2
NWriterSources == 2
MaxItems == 2
MaxWriterCalls == 2
MaxPipelineWrites == 1

IngestWriters == 1..NWriters
WriterSources == 1..NWriterSources

\* RawItem fields read by the writer; " a " is an id with whitespace around it
ItemExternalIds == {"", " a "}
ItemSourceUrls == {"", "u"}
ItemRawTexts == {"t1", "t2"}
RawItems == [external_id : ItemExternalIds, source_url : ItemSourceUrls,
             raw_text : ItemRawTexts]

\* str.strip() on the strings above
Strip(s) == IF s = " a " THEN "a" ELSE s

\* hashlib.sha1(base.encode("utf-8")).hexdigest(): one digest per base string
Sha1HexDigest(prefix, value) ==
    IF prefix = "url" /\ value = "u" THEN "sha1(url:u)"
    ELSE IF prefix = "text" /\ value = "t1" THEN "sha1(text:t1)"
    ELSE IF prefix = "text" /\ value = "t2" THEN "sha1(text:t2)"
    ELSE "sha1(other)"

NormalizeExternalId(item) ==
    IF Strip(item.external_id) # "" THEN Strip(item.external_id)
    ELSE IF Strip(item.source_url) # ""
         THEN Sha1HexDigest("url", Strip(item.source_url))
         ELSE Sha1HexDigest("text", Strip(item.raw_text))

\* the lookup of update_or_create: source and external_id
RawKey(row) == <<row.source, row.external_id>>

\* uniq_raw_source_external_id, mutant: the constraint is not there
RawUniqueViolation_Never(rows, key) == FALSE

\* uniq_raw_source_external_id: an INSERT of a (source, external_id) that a
\* committed row already has raises IntegrityError
RawUniqueViolation(rows, key) == \E r \in rows : RawKey(r) = key

\* the rows transaction w reads: the committed ones and its own writes
WrVisible(w) ==
    wrPending[w] \cup {r \in wrRows : \A p \in wrPending[w] : p.id # r.id}

\* another open transaction holds the row lock or the index entry of key
WrLockedByOther(w, key) == \E o \in IngestWriters \ {w} : key \in wrLocks[o]

\* defaults= of update_or_create applied to a row that exists
WithDefaults(row, item) ==
    [row EXCEPT !.source_url = item.source_url, !.raw_text = item.raw_text]

NoItem == [external_id |-> "", source_url |-> "", raw_text |-> ""]
NoWriteResult == [created |-> -1, updated |-> -1, items |-> -1]

WrInit ==
    /\ wrRows = {}
    /\ wrNextId = 1
    /\ wrPending = [w \in IngestWriters |-> {}]
    /\ wrLocks = [w \in IngestWriters |-> {}]
    /\ wrPc = [w \in IngestWriters |-> "idle"]
    /\ wrSource = [w \in IngestWriters |-> 0]
    /\ wrLeft = [w \in IngestWriters |-> 0]
    /\ wrN = [w \in IngestWriters |-> 0]
    /\ wrItem = [w \in IngestWriters |-> NoItem]
    /\ wrFound = [w \in IngestWriters |-> FALSE]
    /\ wrCreated = [w \in IngestWriters |-> 0]
    /\ wrUpdated = [w \in IngestWriters |-> 0]
    /\ wrResult = [w \in IngestWriters |-> NoWriteResult]
    /\ wrCalls = 0
    /\ wrPipeline = 0

WrIdle ==
    /\ wrRows = {}
    /\ wrNextId = 0
    /\ wrPending = <<>>
    /\ wrLocks = <<>>
    /\ wrPc = <<>>
    /\ wrSource = <<>>
    /\ wrLeft = <<>>
    /\ wrN = <<>>
    /\ wrItem = <<>>
    /\ wrFound = <<>>
    /\ wrCreated = <<>>
    /\ wrUpdated = <<>>
    /\ wrResult = <<>>
    /\ wrCalls = 0
    /\ wrPipeline = 0

\* upsert_items(source=, items=) opens its transaction; the n items are drawn
\* one by one as the loop reaches them
WrUpsertItems(w, source, n) ==
    /\ wrPc[w] = "idle"
    /\ wrCalls < MaxWriterCalls
    /\ wrCalls' = wrCalls + 1
    /\ wrSource' = [wrSource EXCEPT ![w] = source]
    /\ wrLeft' = [wrLeft EXCEPT ![w] = n]
    /\ wrN' = [wrN EXCEPT ![w] = n]
    /\ wrCreated' = [wrCreated EXCEPT ![w] = 0]
    /\ wrUpdated' = [wrUpdated EXCEPT ![w] = 0]
    /\ wrResult' = [wrResult EXCEPT ![w] = NoWriteResult]
    /\ wrPc' = [wrPc EXCEPT ![w] = "get"]
    /\ UNCHANGED <<wrRows, wrNextId, wrPending, wrLocks, wrItem, wrFound, wrPipeline>>
    /\ UNCHANGED wrOthers

\* the next item: _normalize_external_id, then the SELECT ... FOR UPDATE of
\* update_or_create, which waits while another transaction holds the row
WrGet(w, item) ==
    /\ wrPc[w] = "get"
    /\ LET key == <<wrSource[w], NormalizeExternalId(item)>>
           found == \E r \in WrVisible(w) : RawKey(r) = key
       IN /\ (found /\ key \notin wrLocks[w]) => ~WrLockedByOther(w, key)
          /\ wrFound' = [wrFound EXCEPT ![w] = found]
          /\ wrLocks' = [wrLocks EXCEPT ![w] = IF found THEN @ \cup {key} ELSE @]
    /\ wrItem' = [wrItem EXCEPT ![w] = item]
    /\ wrPc' = [wrPc EXCEPT ![w] = "write"]
    /\ UNCHANGED <<wrRows, wrNextId, wrPending, wrSource, wrLeft, wrN, wrCreated,
                   wrUpdated, wrResult, wrCalls, wrPipeline>>
    /\ UNCHANGED wrOthers

\* the rest of update_or_create for the item and the counters of the loop:
\* UPDATE of the row found, or INSERT, which waits for an open transaction that
\* inserted the same key and falls back to get-and-update on IntegrityError
WrWrite(w) ==
    /\ wrPc[w] = "write"
    /\ LET item == wrItem[w]
           key == <<wrSource[w], NormalizeExternalId(item)>>
           insert == ~wrFound[w] /\ ~RawUniqueViolation(wrRows, key)
           target == CHOOSE r \in WrVisible(w) : RawKey(r) = key
           row == IF insert
                  THEN [id |-> wrNextId, source |-> wrSource[w],
                        external_id |-> key[2], status |-> "NEW",
                        source_url |-> item.source_url, raw_text |-> item.raw_text]
                  ELSE WithDefaults(target, item)
       IN /\ ~wrFound[w] => ~WrLockedByOther(w, key)
          /\ wrPending' = [wrPending EXCEPT ![w] = {p \in @ : p.id # row.id} \cup {row}]
          /\ wrLocks' = [wrLocks EXCEPT ![w] = @ \cup {key}]
          /\ wrNextId' = IF insert THEN wrNextId + 1 ELSE wrNextId
          /\ wrCreated' = [wrCreated EXCEPT ![w] = IF insert THEN @ + 1 ELSE @]
          /\ wrUpdated' = [wrUpdated EXCEPT ![w] = IF insert THEN @ ELSE @ + 1]
    /\ wrLeft' = [wrLeft EXCEPT ![w] = @ - 1]
    /\ wrPc' = [wrPc EXCEPT ![w] = IF wrLeft[w] = 1 THEN "commit" ELSE "get"]
    /\ UNCHANGED <<wrRows, wrSource, wrN, wrItem, wrFound, wrResult, wrCalls, wrPipeline>>
    /\ UNCHANGED wrOthers

\* return WriteResult(created=, updated=): the transaction commits
WrCommit(w) ==
    /\ wrPc[w] = "commit"
    /\ wrRows' = wrPending[w] \cup {r \in wrRows : \A p \in wrPending[w] : p.id # r.id}
    /\ wrPending' = [wrPending EXCEPT ![w] = {}]
    /\ wrLocks' = [wrLocks EXCEPT ![w] = {}]
    /\ wrResult' = [wrResult EXCEPT ![w] =
                       [created |-> wrCreated[w], updated |-> wrUpdated[w], items |-> wrN[w]]]
    /\ wrPc' = [wrPc EXCEPT ![w] = "idle"]
    /\ UNCHANGED <<wrNextId, wrSource, wrLeft, wrN, wrItem, wrFound, wrCreated,
                   wrUpdated, wrCalls, wrPipeline>>
    /\ UNCHANGED wrOthers

\* extract_one moves a committed row on to another processing status; it
\* takes the row lock, so it waits for an open writer transaction on the row
WrExtractOne(row, status) ==
    /\ row \in wrRows
    /\ wrPipeline < MaxPipelineWrites
    /\ status # row.status
    /\ \A w \in IngestWriters : RawKey(row) \notin wrLocks[w]
    /\ wrRows' = (wrRows \ {row}) \cup {[row EXCEPT !.status = status]}
    /\ wrPipeline' = wrPipeline + 1
    /\ UNCHANGED <<wrNextId, wrPending, wrLocks, wrPc, wrSource, wrLeft, wrN, wrItem,
                   wrFound, wrCreated, wrUpdated, wrResult, wrCalls>>
    /\ UNCHANGED wrOthers

WrNext ==
    \/ \E w \in IngestWriters, source \in WriterSources, n \in 1..MaxItems :
           WrUpsertItems(w, source, n)
    \/ \E w \in IngestWriters, item \in RawItems : WrGet(w, item)
    \/ \E w \in IngestWriters : WrWrite(w)
    \/ \E w \in IngestWriters : WrCommit(w)
    \/ \E row \in wrRows, status \in Statuses \ {"NEW"} : WrExtractOne(row, status)

-----------------------------------------------------------------------------
(* _provider_chain_for_text on the cached chain of get_provider_chain_names *)

MaxRoutingChain == 4
MaxRoutingCalls == 2

\* provider names the router knows
RoutingProviders == Providers \cup {"stub"}

\* get_provider_chain_names: the normalised names of AI_PROVIDER_CHAIN, each
\* once, in their order; the list is computed once and cached
RoutingChains ==
    {s \in UNION {[1..n -> RoutingProviders] : n \in 1..MaxRoutingChain} :
        \A i, j \in DOMAIN s : i # j => s[i] # s[j]}

RtInit ==
    /\ rtNames \in RoutingChains
    /\ rtText = NoRoutingText
    /\ rtChain = <<>>
    /\ rtCalls = 0

RtIdle ==
    /\ rtNames = <<>>
    /\ rtText = NoRoutingText
    /\ rtChain = <<>>
    /\ rtCalls = 0

\* one call of _provider_chain_for_text(text): names = list(cached chain) is a
\* copy, and what is returned is that copy or a new list
RtProviderChainForText(text) ==
    /\ rtCalls < MaxRoutingCalls
    /\ rtCalls' = rtCalls + 1
    /\ rtText' = text
    /\ rtChain' = ProviderChainForText(rtNames, text)
    /\ rtNames' = rtNames
    /\ UNCHANGED rtOthers

RtNext == \E text \in TextClasses : RtProviderChainForText(text)

-----------------------------------------------------------------------------
(* Specifications *)

CoreIdle == FbIdle /\ GmIdle /\ MtIdle /\ ExIdle
AuxIdle == KrIdle /\ TbIdle /\ PrIdle /\ WrIdle /\ RtIdle

FbNext == FbTryProvider \/ FbExhausted

InitFallback == FbInit /\ GmIdle /\ MtIdle /\ ExIdle /\ AuxIdle
SpecFallback == InitFallback /\ [][FbNext]_vars

InitGemini == GmInit /\ FbIdle /\ MtIdle /\ ExIdle /\ AuxIdle
SpecGemini == InitGemini /\ [][GmNext]_vars

InitMatch == MtInit /\ FbIdle /\ GmIdle /\ ExIdle /\ AuxIdle
SpecMatch == InitMatch /\ [][MtNext]_vars

InitExtract == ExInit /\ FbIdle /\ GmIdle /\ MtIdle /\ AuxIdle
Spec == InitExtract /\ [][ExNext]_vars

\* the scheduler keeps running the batch task, and an extract_one that has
\* started runs to its end; nobody is bound to run extract_one by hand
ExFairness ==
    /\ WF_vars(\E limit \in 1..NRaws : ProcessPendingRaw(limit))
    /\ \A p \in Procs :
          WF_vars(ExEnsureEnglish(p) \/ ExRetryTranslation(p) \/ ExDedup(p)
                      \/ ExAI(p) \/ ExCommit(p) \/ ExHandler(p))
SpecScheduled == InitExtract /\ [][ExNext]_vars /\ ExFairness

InitKeys == KrInit /\ CoreIdle /\ TbIdle /\ PrIdle /\ WrIdle /\ RtIdle
SpecKeys == InitKeys /\ [][KrNext]_vars

InitBucket == TbInit /\ CoreIdle /\ KrIdle /\ PrIdle /\ WrIdle /\ RtIdle
SpecBucket == InitBucket /\ [][TbNext]_vars

InitRules == PrInit /\ CoreIdle /\ KrIdle /\ TbIdle /\ WrIdle /\ RtIdle
SpecRules == InitRules /\ [][PrNext]_vars

InitIngest == WrInit /\ CoreIdle /\ KrIdle /\ TbIdle /\ PrIdle /\ RtIdle
SpecIngest == InitIngest /\ [][WrNext]_vars

InitRouting == RtInit /\ CoreIdle /\ KrIdle /\ TbIdle /\ PrIdle /\ WrIdle
SpecRouting == InitRouting /\ [][RtNext]_vars

-----------------------------------------------------------------------------
(* Claims *)

\* C1: every RawOpportunity has at most one Opportunity under any interleaving
\* of extract_one calls, and a call on a raw that already has its Opportunity
\* updates that row: no call attempts a second INSERT for the raw.
C1_OneOppPerRaw ==
    /\ \A r \in Raws : Cardinality(OppOf(exOpps, r)) <= 1
    /\ ~exIntegrityError

\* C1 witness: a re-run on an extracted raw has committed, its Opportunity was
\* updated in place, while another call on the same raw has started
C1_Witness ==
    \E r \in Raws :
        /\ exRaw[r].status = "EXTRACTED"
        /\ \E o \in OppOf(exOpps, r) : o.updated
        /\ \E p \in Procs : exCur[p] = r /\ exPc[p] # "idle"

\* C2 (as claimed): among the rows whose English text has the same
\* (non-empty) content hash, at most one row triggers an AI extraction call.
C2_OneAiCallPerHash ==
    \A a, b \in exAiLog : (a.hash = b.hash /\ a.hash # 0) => a.raw = b.raw

\* C2 (amended): an extract_one whose dedup lookup runs while another row with
\* the same non-empty content hash is committed EXTRACTED makes no AI
\* extraction call.
C2_NoAiCallAfterCommittedExtraction ==
    \A a \in exAiLog : ~a.prior

\* C2 witness: a lookup that ran while a same-hash row was committed EXTRACTED
\* took the dedupe shortcut, and that row was itself a dedupe copy
C2_Witness ==
    \E p \in Procs :
        /\ exPc[p] = "commit"
        /\ exPrior[p]
        /\ exPrev[p] # 0
        /\ exOppWrite[p].dedupe
        /\ ~IsCanonical(exOpps, exPrev[p])

\* C3: there is at most one Match row per (user, opportunity), whatever runs
\* of the matching engine overlap on the pair.
C3_OneMatchPerPair ==
    \A p \in Pairs : Cardinality(MatchRows(mtMatches, p[1], p[2])) <= 1

\* C3 witness: two calls met in update_or_create on the same pair, both having
\* found no row, and one row is stored
C3_Witness ==
    \E r, q \in Runs :
        /\ r # q
        /\ mtPc[r] = "notify" /\ mtPc[q] = "notify"
        /\ mtU[r] = mtU[q] /\ mtOpp[r] = mtOpp[q]
        /\ ~mtFound[r] /\ ~mtFound[q]
        /\ Cardinality(MatchRows(mtMatches, mtU[r], mtOpp[r])) = 1

C5_OneInFlight ==
    /\ Cardinality({w \in Workers : gmPc[w] = "inflight"}) <= 1
    /\ \A w \in Workers : gmPc[w] = "inflight" => gmLock = w
    /\ gmLock # 0 => gmPc[gmLock] \in {"locked", "inflight"}

\* C5 witness: a request is in flight in a retry (an earlier attempt of the
\* same call failed and released the lock) while another worker waits for it
C5_Witness ==
    \E w, v \in Workers :
        /\ w # v
        /\ gmPc[w] = "inflight"
        /\ gmLastExc[w] = "transient"
        /\ gmPc[v] = "lock_wait"

SendsInWindow(t) == RowsSince(gmSends, t - WindowTicks + 1) - RowsSince(gmSends, t + 1)

\* C6: in every trailing 60-second window the outbound calls of all workers
\* together number at most the requests-per-minute limit.
C6_WindowLimit == \A t \in Ticks : SendsInWindow(t) <= RpmLimit

\* C7: once any worker got a quota/rate-limit response, no worker sends a
\* request before the announced cooldown has elapsed.
C7_ClusterCooldown == ~gmSentEarly

\* C8: a raw whose last extract_one failed with a Transient error and that a
\* later process_pending_raw run selects is enqueued for extraction again.
C8_PickedUpAgain == exBatch.retry \subseteq exBatch.enqueued

\* C9: a raw whose last extract_one failed with a non-Transient error is
\* committed FAILED with the error recorded.
C9_FailedCommitted ==
    \A r \in Raws :
        exLast[r] \in {"permanent", "aierror", "exception"} =>
            /\ exRaw[r].status = "FAILED"
            /\ exRaw[r].err = exLast[r]

\* C9 witness: the failed call had written inside its transaction (English
\* text, TRANSLATED, content hash) before the AI extraction failed; those
\* writes are gone and the row is FAILED with the error
C9_Witness ==
    \E r \in Raws :
        /\ exLast[r] = "permanent"
        /\ exRaw[r].status = "FAILED"
        /\ exRaw[r].err = "permanent"
        /\ exRaw[r].text_en = NoText
        /\ exRaw[r].hash = 0
        /\ \E a \in exAiLog : a.raw = r

\* what the fallback loop met: every provider called, and which ones failed how
FbAllFailed == fbStatus = "raised" /\ Len(fbCalled) = Len(fbChain)
FbTransientIdx == {i \in 1..Len(fbChain) : fbOut[fbChain[i]] = "transient"}
FbPermanentIdx ==
    {i \in 1..Len(fbChain) :
        fbOut[fbChain[i]] \in {"permanent", "configuration", "invalid"}}

\* C10: when every provider of the chain was called and failed, the error
\* raised is Transient and stems from the last Transient failure if there is
\* one; otherwise it stems from the first Permanent/Configuration (or
\* validation) failure and is not Transient.
C10_FallbackError ==
    FbAllFailed =>
        IF FbTransientIdx # {}
        THEN fbError.kind = "transient" /\ fbError.cause = SetMax(FbTransientIdx)
        ELSE FbPermanentIdx # {} =>
                /\ fbError.kind \in {"permanent", "configuration"}
                /\ fbError.cause = SetMin(FbPermanentIdx)

\* C11: a fallback call tries the providers in the order of the chain it
\* iterates over, each at most once; every provider called before the last one
\* called has failed, and a provider that succeeds ends the call: nothing is
\* called after it.
C11_ChainOrder ==
    /\ Len(fbCalled) <= Len(fbChain)
    /\ \A i \in 1..Len(fbCalled) : fbCalled[i] = fbChain[i]
    /\ \A i, j \in 1..Len(fbCalled) : i # j => fbCalled[i] # fbCalled[j]
    /\ \A i \in 1..Len(fbCalled) :
          fbOut[fbCalled[i]] = "ok" => i = Len(fbCalled) /\ fbStatus = "returned"
    /\ fbStatus = "returned" =>
          fbCalled # <<>> /\ fbOut[fbCalled[Len(fbCalled)]] = "ok"

\* C11 witness: a reordered chain of three, the first provider failed, the
\* second succeeded, the third was never called
C11_Witness ==
    /\ fbChain # fbNames
    /\ Len(fbChain) = 3
    /\ fbStatus = "returned"
    /\ Len(fbCalled) = 2
    /\ fbOut[fbChain[3]] = "ok"

\* C12: in AI extraction, a provider whose output fails the taxonomy
\* consistency check (ValueError) does not end the call unless it is the last
\* of the chain: the next provider is tried; and a call that succeeds returns
\* the provider (and so the data) of the first provider whose output validated.
C12_InvalidTriesNext ==
    fbCaller = "extract" =>
        /\ \A i \in 1..Len(fbCalled) :
              (fbOut[fbCalled[i]] = "invalid" /\ i < Len(fbChain)) =>
                  (fbStatus = "running" \/ Len(fbCalled) > i)
        /\ fbStatus = "returned" =>
              /\ fbOut[fbChain[fbI]] = "ok"
              /\ fbCalled[Len(fbCalled)] = fbChain[fbI]
              /\ \A k \in 1..(fbI - 1) : fbOut[fbChain[k]] # "ok"

\* C12 witness: the first provider's output was inconsistent, the second
\* provider's output validated and the extraction returned it
C12_Witness ==
    /\ fbCaller = "extract"
    /\ fbStatus = "returned"
    /\ Len(fbCalled) = 2
    /\ fbOut[fbCalled[1]] = "invalid"
    /\ fbI = 2

\* the Opportunity rows extract_one has created or updated
ExWrittenOpps == {o \in exOpps : o.id > NRaws \/ o.updated}

\* C13: every Opportunity row extract_one has saved, on the AI path and on
\* the dedupe path, names a domain owned by its type and a specialization
\* owned by its domain; so does every save a running call has made.
C13_TaxonomyConsistent ==
    /\ \A o \in ExWrittenOpps : TaxonomyConsistent(Taxonomy(o.data))
    /\ \A p \in Procs :
          exOppWrite[p].kind # "none" => TaxonomyConsistent(Taxonomy(exOppWrite[p].data))

\* C13 witness: a dedupe copy of a row stored with an inconsistent chain was
\* refused by clean(); the row was then re-extracted and the copy committed
C13_Witness ==
    \E p \in Procs, c \in ExWrittenOpps :
        /\ exPc[p] = "handler" /\ exErr[p] = "validation"
        /\ c.raw = exCur[p] /\ c.dedupe
        /\ \E o \in ExWrittenOpps : o.raw = c.root /\ o.updated

\* C14: whenever extract_one takes the dedupe shortcut, the
\* Opportunity it copies from is not itself a dedupe copy.
C14_SourceCanonical ==
    [][\A p \in Procs :
          (exPc[p] = "dedup" /\ exPc'[p] = "commit") =>
              IsCanonical(exOpps, exPrev'[p])]_vars

C16_EnglishOrFailed ==
    /\ [](/\ \A r \in Raws :
               exRaw[r].status = "EXTRACTED" =>
                   exRaw[r].text_en # NoText /\ IsProbablyEnglish(exRaw[r].text_en)
          /\ \A p \in Procs :
               exPc[p] \in {"dedup", "ai", "commit"} =>
                   IsProbablyEnglish(exObj[p].text_en)
          /\ \A p \in Procs : exErr[p] = "not_english" => exPc[p] = "handler")
    /\ [][\A p \in Procs :
            /\ (exPc'[p] = "retry" /\ exPc[p] # "retry") => exPc[p] = "english"
            /\ (exPc[p] = "retry" /\ exPc'[p] # "retry") =>
                  exPc'[p] \in {"dedup", "handler"}
            /\ (exErr'[p] = "not_english" /\ exErr[p] # "not_english") =>
                  /\ exPc[p] = "retry"
                  /\ exAiLog' = exAiLog /\ exOpps' = exOpps
                  /\ exOppWrite'[p] = NoOppWrite
            /\ (exPc[p] = "handler" /\ exErr[p] = "not_english"
                   /\ exPc'[p] # "handler") =>
                  /\ exRaw'[exCur[p]].status = "FAILED"
                  /\ exAiLog' = exAiLog /\ exOpps' = exOpps
            /\ exPc'[p] = "ai" => exPc[p] \in {"ai", "dedup"}
            /\ (exPc'[p] = "dedup" /\ exPc[p] # "dedup") =>
                  exPc[p] \in {"english", "retry"}]_vars

\* C16 witness: the retry's text failed the heuristic as well; the call is in
\* its except clause, the raw is not translated and has no Opportunity
C16_Witness ==
    \E p \in Procs :
        /\ exPc[p] = "handler"
        /\ exErr[p] = "not_english"
        /\ ~IsProbablyEnglish(exRawText[exCur[p]])
        /\ exRaw[exCur[p]].status = "NEW"
        /\ ~HasOpp(exOpps, exCur[p])
\* C17: a Stage-2 call in which no provider succeeded and a provider raised a
\* Configuration error raises to its caller instead of returning the neutral
\* result.
C17_ConfigurationRaises ==
    (/\ fbCaller = "stage2"
     /\ fbStatus # "running"
     /\ \A i \in 1..Len(fbCalled) : fbOut[fbCalled[i]] # "ok"
     /\ \E i \in 1..Len(fbCalled) : fbOut[fbCalled[i]] = "configuration")
        => fbStatus = "raised"
\* C18: when every provider fails at Stage 2 and the evaluation falls back to
\* the neutral score with no Stage-2 score, the match is still stored for the
\* user: the call goes on to _create_match_record.
C18_NeutralSurfaces ==
    [][\A r \in Runs :
          (/\ mtPc[r] = "stage2" /\ mtPc'[r] # "stage2"
           /\ mtResult'[r].score = NeutralScore /\ mtResult'[r].stage2 = -1) =>
              mtPc'[r] = "upsert_get"]_vars
\* C19: every Match row stored has a score at or above the minimum match
\* score, stage1_passed set and status ACTIVE; an evaluation that ends below
\* the threshold writes nothing: the Match table is as it was.
C19_StoredAboveThreshold ==
    /\ [](\A m \in mtMatches :
             m.score >= MinMatchScore /\ m.stage1_passed /\ m.status = "ACTIVE")
    /\ [][\A r \in Runs :
            /\ (mtPc[r] = "stage2" /\ mtPc'[r] # "stage2"
                   /\ mtResult'[r].score < MinMatchScore) =>
                  mtPc'[r] \in {"single", "done"} /\ mtMatches' = mtMatches
            /\ (mtPc[r] = "single" /\ mtU'[r] # mtU[r]) => mtMatches' = mtMatches
            /\ (mtPc'[r] = "upsert_get" /\ mtPc[r] # "upsert_get") =>
                  mtResult'[r].score >= MinMatchScore
            /\ (mtPc[r] = "upsert_write" /\ mtPc'[r] # "upsert_write") =>
                  \E m \in MatchRows(mtMatches', mtU[r], mtOpp[r]) :
                      m.score = mtResult[r].score /\ m.score >= MinMatchScore]_vars

\* C19 witness: one pair was stored with a score exactly at the threshold,
\* another evaluation by the AI ended below it and left no row for its pair
C19_Witness ==
    \E r \in Runs, a \in mtAiLog :
        /\ mtPc[r] = "done"
        /\ mtResult[r].stage2 \in AiScores /\ mtResult[r].stage2 < MinMatchScore
        /\ a.run = r
        /\ MatchRows(mtMatches, a.user, a.opp) = {}
        /\ \E m \in mtMatches : m.score = MinMatchScore
\* C20: a pair whose opportunity does not itself satisfy the user's Stage-1
\* preferences never reaches Stage 2, whatever other opportunities are
\* ACTIVE: no AI call is made for it (and so no Match row is written).
C20_TargetFiltered == \A a \in mtAiLog : a.target

-----------------------------------------------------------------------------
\* C21: for a user whose MatchConfig sets no preference, the Stage-1 list
\* handed to Stage 2 contains the opportunity being matched, however many
\* other ACTIVE opportunities there are.
C21_NoPreferencesListsTarget ==
    \A r \in Runs :
        (mtPc[r] = "stage2" /\ ~mtStage1[r].prefs) => mtStage1[r].listed

\* C22: the AI re-rank runs only when the number of ACTIVE opportunities
\* passing the user's Stage-1 filter is within the candidate cap.
C22_AiOnlyWithinCap ==
    \A r \in Runs :
        mtPc[r] = "stage2" => mtStage1[r].passing <= MaxStage1Candidates

-----------------------------------------------------------------------------
\* C24: a failing usage-record write never fails the AI call: whenever _call
\* came back with the provider's answer, generate_text / generate_json
\* returns it to the caller.
C24_LogFailureHarmless ==
    \A w \in Workers :
        (gmPc[w] = "idle" /\ gmOutcome[w] = "ok") => gmResult[w] = "ok"

C26_NeverExhaustedKey ==
    krLast # 0 =>
        /\ krLast \notin krExhausted
        /\ (krLast = PermanentError) = (krExhausted = RotationKeys)
        /\ Cardinality(RotationKeys \ krExhausted) = 1 =>
               krLast \in RotationKeys \ krExhausted

\* selections made with all keys but one exhausted, the round-robin index at
\* a position where a walk over all configured keys would hit an exhausted one
C26_Witness ==
    /\ Cardinality(RotationKeys \ krExhausted) = 1
    /\ krLast \in RotationKeys
    /\ krIndex >= 2

PrSaved == {prOpp[r] : r \in {q \in RuleRaws : prOpp[q] # NoOpp}}

C29_RemoteLocation ==
    \A o \in PrSaved :
        /\ o.is_remote = (o.work_mode = "REMOTE")
        /\ o.work_mode = "REMOTE" =>
              o.location = (IF prRemoteExists THEN RemoteLocation ELSE NoLocation)

\* a REMOTE dedupe copy whose location was cleared because there is no
\* "Remote" node, next to a saved Opportunity that is not remote and kept
\* its location
C29_Witness ==
    /\ ~prRemoteExists
    /\ \E o1, o2 \in PrSaved :
          /\ o1.work_mode = "REMOTE" /\ o1.override /\ o1.location = NoLocation
          /\ o1.is_remote
          /\ o2.work_mode = "ONSITE" /\ o2.location = CityLocation /\ ~o2.is_remote

\* rows of the table that belong to one (source, external id)
WrRowsOf(key) == {r \in wrRows : RawKey(r) = key}

\* C30: upsert_items is idempotent: the table holds at most one row per
\* (source, external id), and exactly one for every item a finished call was
\* given; a row's external id is the stripped id of the item or the digest
\* derived from its URL or else its text; created + updated of a finished call
\* is the number of its items; a row being created has status NEW; and a
\* commit of upsert_items leaves the status of every row that existed alone
C30_UpsertIdempotent ==
    /\ [](/\ \A r1, r2 \in wrRows : RawKey(r1) = RawKey(r2) => r1 = r2
          /\ \A r \in wrRows :
                 /\ r.external_id # ""
                 /\ r.external_id \in
                        {"a", Sha1HexDigest("url", "u"), Sha1HexDigest("text", r.raw_text)}
          /\ \A w \in DOMAIN wrResult :
                 wrResult[w] # NoWriteResult =>
                     wrResult[w].created + wrResult[w].updated = wrResult[w].items
          /\ \A w \in DOMAIN wrPc :
                 wrPc[w] = "idle" /\ wrResult[w] # NoWriteResult =>
                     Cardinality(WrRowsOf(<<wrSource[w], NormalizeExternalId(wrItem[w])>>)) = 1
          /\ \A w \in DOMAIN wrPending : \A p \in wrPending[w] :
                 (\A r \in wrRows : r.id # p.id) => p.status = "NEW")
    /\ [][\A w \in DOMAIN wrPc :
              wrPc[w] = "commit" /\ wrPc'[w] = "idle" =>
                  /\ \A r \in wrRows : \E q \in wrRows' :
                         q.id = r.id /\ q.status = r.status /\ RawKey(q) = RawKey(r)
                  /\ \A q \in wrRows' :
                         (\A r \in wrRows : r.id # q.id) => q.status = "NEW"]_vars

\* C30 witness: a call has returned created = 0 and updated = 2 for a source
\* whose row, an id-less item filed under the digest of its URL, had been
\* moved on by the pipeline and still has that status
C30_Witness ==
    \E w \in DOMAIN wrResult :
        /\ wrPc[w] = "idle"
        /\ wrResult[w] = [created |-> 0, updated |-> 2, items |-> 2]
        /\ wrItem[w].external_id = ""
        /\ wrItem[w].source_url = "u"
        /\ \E r \in wrRows :
               /\ RawKey(r) = <<wrSource[w], Sha1HexDigest("url", "u")>>
               /\ r.status = "EXTRACTED"
               /\ r.raw_text = wrItem[w].raw_text

\* C31: every process_pending_raw run that selected pending rows returned
\* having marked them and enqueued one extraction task for each of them.
C31_ClaimedThenEnqueued ==
    exBatch.selected # {} =>
        /\ exBatch.result = "returned"
        /\ exBatch.enqueued = exBatch.selected

\* position of provider n in the chain s (0 = absent)
RtIndex(s, n) == IF \E i \in DOMAIN s : s[i] = n THEN CHOOSE i \in DOMAIN s : s[i] = n ELSE 0

\* the computed order is a permutation of the cached chain in which the
\* providers other than gemini and groq keep their relative order
RtPermutation ==
    /\ Len(rtChain) = Len(rtNames)
    /\ SeqRange(rtChain) = SeqRange(rtNames)
    /\ \A i, j \in DOMAIN rtChain : i # j => rtChain[i] # rtChain[j]
    /\ \A i, j \in DOMAIN rtChain :
          (i < j /\ {rtChain[i], rtChain[j]} \cap {"gemini", "groq"} = {}) =>
              RtIndex(rtNames, rtChain[i]) < RtIndex(rtNames, rtChain[j])

C33_EnglishKeptOnTransient ==
    \A r \in Raws :
        (/\ exLast[r] = "transient"
         /\ \/ IsProbablyEnglish(exRawText[r])
            \/ exCalls = 1 /\ \E e \in exAiLog : e.raw = r) =>
            /\ IsProbablyEnglish(exRaw[r].text_en)
            /\ exRaw[r].status \in {"TRANSLATED", "EXTRACTED"}

\* C34: a call of extract_one that raises leaves no partial result. The step
\* that leaves the atomic block by an exception changes no committed row and
\* drops what the call had staged; the except clause that follows changes no
\* Opportunity and, on the raw of the call only, nothing but status and error
\* message; and the Opportunity table changes only when a call commits.
C34_NoPartialResult ==
    [][/\ \A p \in Procs :
            /\ (exPc[p] # "handler" /\ exPc'[p] = "handler") =>
                  /\ exOpps' = exOpps
                  /\ exRaw' = exRaw
                  /\ exOppWrite'[p] = NoOppWrite
                  /\ exBackfill'[p] = {}
            /\ (exPc[p] = "handler" /\ exPc'[p] = "idle") =>
                  /\ exOpps' = exOpps
                  /\ \A q \in Raws :
                        /\ exRaw'[q].text_en = exRaw[q].text_en
                        /\ exRaw'[q].hash = exRaw[q].hash
                        /\ q # exCur[p] => exRaw'[q] = exRaw[q]
       /\ exOpps' # exOpps =>
            \E p \in Procs :
                /\ exPc[p] = "commit"
                /\ exPc'[p] = "idle"
                /\ exLast'[exCur[p]] = "ok"]_vars

\* C34 witness: the re-extraction of a raw that has an Opportunity and a
\* content hash failed for good, and its Opportunity is as it was
C34_Witness ==
    \E r \in Raws :
        /\ exLast[r] = "permanent"
        /\ exRaw[r].status = "FAILED"
        /\ exRaw[r].hash # 0
        /\ \E o \in OppOf(exOpps, r) : ~o.updated
        /\ \A p \in Procs : exPc[p] = "idle"

\* C35: in AI extraction, a provider whose output names a taxonomy id that
\* does not exist (for a provider other than gemini the only exception of the
\* try body that is none of the AI errors nor ValueError) does not end the
\* call unless it is the last of the chain: the next provider is tried.
C35_UnknownIdTriesNext ==
    fbCaller = "extract" =>
        \A i \in 1..Len(fbCalled) :
            (fbCalled[i] # "gemini" /\ fbOut[fbCalled[i]] = "other" /\ i < Len(fbChain)) =>
                (fbStatus = "running" \/ Len(fbCalled) > i)

\* C36: one call of _call makes a bounded number of HTTP attempts and ends as
\* the claim says. The attempt counter of a key stays within the backoff
\* schedule and a key is tried at most once, so a key that comes up again
\* never starts another round; after a 5xx or a network fault the call goes on
\* to the next backoff or, after the last one, back to the key selection; a
\* call that ends at the key selection ends with the Transient error it saw
\* last; and a 4xx other than throttling ends the call with a Permanent error
\* at once, after which nothing more is sent.
C36_BoundedRetry ==
    /\ [](\A w \in Workers :
            /\ gmAttempt[w] \in 1..NBackoffs
            /\ Cardinality(gmTried[w]) <= NKeys)
    /\ [][\A w \in Workers :
            /\ (gmPc[w] = "pick_key" /\ gmPc'[w] = "throttle") =>
                  /\ gmTried[w] \subseteq gmTried'[w]
                  /\ gmTried'[w] # gmTried[w]
            /\ (gmPc[w] = "pick_key" /\ gmPc'[w] = "log") =>
                  gmOutcome'[w] = "transient"
            /\ (gmPc[w] = "inflight" /\ gmPc'[w] # "inflight"
                    /\ gmLastResp'[w] \in {"5xx", "neterr"}) =>
                  /\ gmLastExc'[w] = "transient"
                  /\ IF gmAttempt[w] < NBackoffs
                     THEN gmPc'[w] = "lock_wait" /\ gmAttempt'[w] = gmAttempt[w] + 1
                     ELSE gmPc'[w] = "pick_key"
            /\ (gmPc[w] = "inflight" /\ gmPc'[w] # "inflight"
                    /\ gmLastResp'[w] = "4xx") =>
                  gmPc'[w] = "log" /\ gmOutcome'[w] = "permanent"
            /\ gmPc[w] = "log" => gmPc'[w] \in {"log", "idle"}]_vars

\* C36 witness: a call has made its four attempts with a key, the last one
\* answered by a 5xx or a network fault, came upon that key again and ended
\* with the Transient error
C36_Witness ==
    \E w \in Workers :
        /\ gmPc[w] = "log"
        /\ Cardinality(gmTried[w]) = 1
        /\ gmAttempt[w] = NBackoffs
        /\ gmLastResp[w] \in {"5xx", "neterr"}
        /\ gmOutcome[w] = "transient"

\* C37: the token bucket of a worker is drawn on by its HTTP attempts only, one
\* token per attempt: every step that takes a token is the step that sends.
C37_OneTokenPerAttempt ==
    [][\A w \in Workers :
          (gmTokens'[w] # gmTokens[w] \/ gmUpdatedAt'[w] # gmUpdatedAt[w]) =>
              /\ gmPc[w] = "locked"
              /\ gmPc'[w] = "inflight"
              /\ gmTokens'[w] = Refill(gmTokens[w], gmUpdatedAt[w], gmNow) - TokenCost]_vars

\* C38: with the batch task run again and again, every raw that has usable
\* text eventually reaches EXTRACTED or FAILED.
C38_EventuallySettled ==
    \A r \in Raws :
        [](exRawText[r] # NoText => <>(exRaw[r].status \in {"EXTRACTED", "FAILED"}))

\* C39: in every committed state, a raw that has an Opportunity has status
\* EXTRACTED.
C39_LinkedIsExtracted ==
    \A r \in Raws : HasOpp(exOpps, r) => exRaw[r].status = "EXTRACTED"

=============================================================================
